---- MODULE Spec2Model ----
(***************************************************************************)
(* Products CRUD API of cornflowerblu/agentic-ai-demos, implemented twice: *)
(*   - the in-memory Express router                                        *)
(*       autonomous-loop-demo/src/endpoints/products.ts                    *)
(*   - the DynamoDB-backed Lambda handler (unnamed/part_006)               *)
(* and the Users CRUD router express-demo/src/routes/users.ts.            *)
(* They are separate programs; `deployment` says which one a behaviour is  *)
(* a run of.  Spec: either Products program, one request at a time;        *)
(* ConcSpec: concurrent handler invocations; PairSpec: the two Products    *)
(* programs given the same requests; FaultSpec: the handler over failing   *)
(* DynamoDB calls; EventSpec: the handler from the raw event on; RaceSpec: *)
(* concurrent updates of one item; UsersSpec: the Users router; PaySpec:   *)
(* batchProcessPayments of payment-module/payment.ts.                      *)
(***************************************************************************)
EXTENDS Integers, Sequences, FiniteSets, TLC

VARIABLES
    deployment,   \* "express" | "lambda" | "users" | "payments": which program is running
                  \* ("both": the first two)
    products,     \* express: the module-level products array
    nextId,       \* express: the module-level nextId counter
    table,        \* lambda: the DynamoDB table, id -> item (absent ids are not in DOMAIN)
    inv,          \* lambda: per-invocation continuation awaiting a DynamoDB write
    last,         \* the last completed HTTP exchange (request and response)
    prev,         \* the store as it was when the last completed exchange's final step began
    issued,       \* ids returned by successful creates, in order
    deleted,      \* the id parameters of the deletes that have answered 200
    updated,      \* the ids of the stored products an update has answered 200 for
    users,        \* users router: the module-level users Map, in insertion order
    batch         \* payments: the call of batchProcessPayments in progress

vars == <<deployment, products, nextId, table, inv, last, prev, issued, deleted, updated, users, batch>>

----------------------------------------------------------------------------
(* Bounds *)

MaxUsers == 2        \* successful creates of users per run
MaxCreates == 2      \* successful creates per run of requests handled one at a time
MaxConcCreates == 1  \* successful creates per run of concurrent invocations
NumWorkers == 2      \* concurrent Lambda invocations
MaxPayments == 2     \* payments in one call of batchProcessPayments

----------------------------------------------------------------------------
(* JavaScript values.  t is the result of typeof; null has typeof 'object'. *)

Undef == [t |-> "undefined", s |-> <<>>, n |-> 0]
Null == [t |-> "object", s |-> <<>>, n |-> 0]
Num(n) == [t |-> "number", s |-> <<>>, n |-> n]
Str(s) == [t |-> "string", s |-> s, n |-> 0]

\* new Date().toISOString(): a string carrying the instant it was taken at
Iso(i) == [t |-> "string", s |-> <<"T">>, n |-> i]

\* the instants a clock reading can return
Instants == {1}

\* !v is false exactly for truthy v: undefined, null, '' and 0 are falsy
Truthy(v) ==
    CASE v.t = "undefined" -> FALSE
      [] v.t = "object" -> FALSE
      [] v.t = "string" -> v.s # <<>>
      [] v.t = "number" -> v.n # 0
      [] OTHER -> TRUE

IsWhite(c) == c = " "

RECURSIVE TrimStart(_)
TrimStart(s) ==
    IF s = <<>> THEN <<>>
    ELSE IF IsWhite(Head(s)) THEN TrimStart(Tail(s)) ELSE s

RECURSIVE TrimEnd(_)
TrimEnd(s) ==
    IF s = <<>> THEN <<>>
    ELSE IF IsWhite(s[Len(s)]) THEN TrimEnd(SubSeq(s, 1, Len(s) - 1)) ELSE s

\* String.prototype.trim
Trim(s) == TrimEnd(TrimStart(s))

----------------------------------------------------------------------------
(* parseInt(idParam, 10) *)

Digits == {"0", "1", "2", "3", "4", "5", "6", "7", "8", "9"}

DigitVal(c) ==
    CASE c = "0" -> 0 [] c = "1" -> 1 [] c = "2" -> 2 [] c = "3" -> 3
      [] c = "4" -> 4 [] c = "5" -> 5 [] c = "6" -> 6 [] c = "7" -> 7
      [] c = "8" -> 8 [] c = "9" -> 9

DigitChar(k) ==
    CASE k = 0 -> "0" [] k = 1 -> "1" [] k = 2 -> "2" [] k = 3 -> "3"
      [] k = 4 -> "4" [] k = 5 -> "5" [] k = 6 -> "6" [] k = 7 -> "7"
      [] k = 8 -> "8" [] k = 9 -> "9"

NaN == [nan |-> TRUE, v |-> 0]
Int10(v) == [nan |-> FALSE, v |-> v]

RECURSIVE DigitPrefix(_)
DigitPrefix(s) ==
    IF s = <<>> \/ Head(s) \notin Digits THEN <<>>
    ELSE <<Head(s)>> \o DigitPrefix(Tail(s))

RECURSIVE DecimalValue(_)
DecimalValue(ds) ==
    IF ds = <<>> THEN 0
    ELSE 10 * DecimalValue(SubSeq(ds, 1, Len(ds) - 1)) + DigitVal(ds[Len(ds)])

\* skips leading white space, takes an optional sign, then the longest run of
\* digits; NaN when that run is empty; whatever follows the run is ignored
ParseInt(str) ==
    LET s0 == TrimStart(str)
        neg == s0 # <<>> /\ Head(s0) = "-"
        s1 == IF s0 # <<>> /\ Head(s0) \in {"-", "+"} THEN Tail(s0) ELSE s0
        ds == DigitPrefix(s1)
    IN  IF ds = <<>> THEN NaN
        ELSE Int10(IF neg THEN 0 - DecimalValue(ds) ELSE DecimalValue(ds))

\* p.id === id with id the result of parseInt: NaN equals nothing
StrictEq(pid, parsed) == ~parsed.nan /\ pid = parsed.v

RECURSIVE NatText(_)
NatText(k) == IF k < 10 THEN <<DigitChar(k)>> ELSE NatText(k \div 10) \o <<DigitChar(k % 10)>>

\* `${id}` of a parseInt result inside a message: NaN, or the number's characters
IdText(parsed) == IF parsed.nan THEN <<"NaN">>
                  ELSE IF parsed.v < 0 THEN <<"-">> \o NatText(0 - parsed.v)
                  ELSE NatText(parsed.v)

----------------------------------------------------------------------------
(* Requests and responses *)

\* a request body after JSON parsing: a key that is absent reads as undefined
NoBody == [name |-> Undef, price |-> Undef, category |-> Undef, id |-> Undef, createdAt |-> Undef]
NoId == <<>>

\* an error or confirmation message is its sequence of words
NoText == <<>>

\* a response header is a pair of its name and its value, the value being the
\* sequence of its comma-separated tokens
JsonHeaders == {<<"Content-Type", <<"application/json">>>>}

\* res.status(status).json(envelope): the JSON envelope with its status code
\* and the headers res.json() sets; data is a sequence of records (empty when
\* the envelope has no data key)
ErrorEnvelope(status, error) ==
    [status |-> status, success |-> FALSE, error |-> error, data |-> <<>>, message |-> NoText,
     headers |-> JsonHeaders]
DataEnvelope(status, data) ==
    [status |-> status, success |-> TRUE, error |-> NoText, data |-> data, message |-> NoText,
     headers |-> JsonHeaders]
MessageEnvelope(status, message) ==
    [status |-> status, success |-> TRUE, error |-> NoText, data |-> <<>>, message |-> message,
     headers |-> JsonHeaders]

\* a completed exchange: the request, the response, whether a delete of the
\* same id parameter had answered 200 before this response was made, and the
\* message of the exception a DynamoDB call threw during it (NoText for none)
Exchange(op, idParam, body, r) ==
    [op |-> op, idParam |-> idParam, body |-> body, status |-> r.status,
     success |-> r.success, error |-> r.error, data |-> r.data, message |-> r.message,
     headers |-> r.headers, afterDelete |-> idParam \in deleted, thrown |-> NoText]

NoExchange ==
    [op |-> "none", idParam |-> NoId, body |-> NoBody, status |-> 0,
     success |-> FALSE, error |-> NoText, data |-> <<>>, message |-> NoText,
     headers |-> {}, afterDelete |-> FALSE, thrown |-> NoText]

----------------------------------------------------------------------------
(* The in-memory router: autonomous-loop-demo/src/endpoints/products.ts *)

\* products.findIndex(p => p.id === id), 1-based; 0 for -1
RECURSIVE FindIndexFrom(_, _, _)
FindIndexFrom(prods, parsed, i) ==
    IF i > Len(prods) THEN 0
    ELSE IF StrictEq(prods[i].id, parsed) THEN i
    ELSE FindIndexFrom(prods, parsed, i + 1)

FindIndex(prods, parsed) == FindIndexFrom(prods, parsed, 1)

\* products.splice(i, 1)
\* splice(index) without a delete count: everything from the index on goes
Splice_ToEnd(prods, i) == SubSeq(prods, 1, i - 1)

Splice(prods, i) == SubSeq(prods, 1, i - 1) \o SubSeq(prods, i + 1, Len(prods))

NotFoundText(parsed) == <<"Product", "with", "id">> \o IdText(parsed) \o <<"not", "found">>

\* ListResult returning the array newest first
ListResult_Reversed(prods) ==
    DataEnvelope(200, [i \in 1..Len(prods) |-> prods[Len(prods) + 1 - i]])

\* router.get('/')
ListResult(prods) == DataEnvelope(200, prods)

\* router.get('/:id')
GetResult(prods, idParam) ==
    LET id == ParseInt(idParam)
        i == FindIndex(prods, id)
    IN  IF i = 0 THEN ErrorEnvelope(404, NotFoundText(id))
        ELSE DataEnvelope(200, <<prods[i]>>)

\* router.post('/'), the validation block: the message of the first failing
\* check, NoText when every check passes
PostValidate(body) ==
    IF ~Truthy(body.name) \/ body.name.t # "string" \/ Trim(body.name.s) = <<>>
    THEN <<"name", "is", "required", "and", "must", "be", "a", "non-empty", "string">>
    ELSE IF body.price = Undef \/ body.price = Null \/ body.price.t # "number"
    THEN <<"price", "is", "required", "and", "must", "be", "a", "number">>
    ELSE IF body.price.n <= 0
    THEN <<"price", "must", "be", "positive">>
    ELSE IF ~Truthy(body.category) \/ body.category.t # "string" \/ Trim(body.category.s) = <<>>
    THEN <<"category", "is", "required", "and", "must", "be", "a", "non-empty", "string">>
    ELSE NoText

\* NewProduct storing name and category as submitted, without trim()
NewProduct_Untrimmed(nid, body, now) ==
    [id |-> nid, name |-> body.name, price |-> body.price,
     category |-> body.category, createdAt |-> Iso(now), updatedAt |-> Undef]

\* router.post('/'), the object literal built after validation
NewProduct(nid, body, now) ==
    [id |-> nid, name |-> Str(Trim(body.name.s)), price |-> body.price,
     category |-> Str(Trim(body.category.s)), createdAt |-> Iso(now), updatedAt |-> Undef]

\* PostResult taking products.length + 1 as the id instead of nextId++
PostResult_LengthId(prods, nid, body, now) ==
    LET err == PostValidate(body)
        p == [id |-> Len(prods) + 1, name |-> Str(Trim(body.name.s)), price |-> body.price,
              category |-> Str(Trim(body.category.s)), createdAt |-> Iso(now), updatedAt |-> Undef]
    IN  IF err # NoText
        THEN [products |-> prods, nextId |-> nid, resp |-> ErrorEnvelope(400, err)]
        ELSE [products |-> Append(prods, p), nextId |-> nid, resp |-> DataEnvelope(201, <<p>>)]

\* router.post('/'): the store, the counter and the response it leaves
\* PostResult with nextId++ evaluated before the validation
PostResult_CountsRejected(prods, nid, body, now) ==
    LET err == PostValidate(body)
    IN  IF err # NoText
        THEN [products |-> prods, nextId |-> nid + 1, resp |-> ErrorEnvelope(400, err)]
        ELSE [products |-> Append(prods, NewProduct(nid, body, now)),
              nextId |-> nid + 1,
              resp |-> DataEnvelope(201, <<NewProduct(nid, body, now)>>)]

PostResult(prods, nid, body, now) ==
    LET err == PostValidate(body)
    IN  IF err # NoText
        THEN [products |-> prods, nextId |-> nid, resp |-> ErrorEnvelope(400, err)]
        ELSE [products |-> Append(prods, NewProduct(nid, body, now)),
              nextId |-> nid + 1,
              resp |-> DataEnvelope(201, <<NewProduct(nid, body, now)>>)]

\* PutPriceInvalid testing price < 0, which lets a price of 0 through
PutPriceInvalid_ZeroAllowed(body) == body.price.t # "number" \/ body.price.n < 0

\* router.put('/:id'), the three per-field checks
PutNameInvalid(body) == body.name.t # "string" \/ Trim(body.name.s) = <<>>
PutPriceInvalid(body) == body.price.t # "number" \/ body.price.n <= 0
PutCategoryInvalid(body) == body.category.t # "string" \/ Trim(body.category.s) = <<>>

\* PutResult copying the body's createdAt key onto the product, as
\* Object.assign(product, req.body) would
PutResult_AssignsCreatedAt(prods, idParam, body, now) ==
    LET id == ParseInt(idParam)
        i == FindIndex(prods, id)
        p0 == prods[i]
        p1 == IF body.name # Undef THEN [p0 EXCEPT !.name = Str(Trim(body.name.s))] ELSE p0
        p2 == IF body.price # Undef THEN [p1 EXCEPT !.price = body.price] ELSE p1
        p3 == IF body.category # Undef THEN [p2 EXCEPT !.category = Str(Trim(body.category.s))] ELSE p2
        p4 == [p3 EXCEPT !.updatedAt = Iso(now),
                         !.createdAt = IF body.createdAt # Undef THEN body.createdAt ELSE @]
    IN  IF i = 0
        THEN [products |-> prods, resp |-> ErrorEnvelope(404, NotFoundText(id))]
        ELSE IF body.name # Undef /\ PutNameInvalid(body)
        THEN [products |-> prods,
              resp |-> ErrorEnvelope(400, <<"name", "must", "be", "a", "non-empty", "string">>)]
        ELSE IF body.price # Undef /\ PutPriceInvalid(body)
        THEN [products |-> [prods EXCEPT ![i] = p1],
              resp |-> ErrorEnvelope(400, <<"price", "must", "be", "a", "positive", "number">>)]
        ELSE IF body.category # Undef /\ PutCategoryInvalid(body)
        THEN [products |-> [prods EXCEPT ![i] = p2],
              resp |-> ErrorEnvelope(400, <<"category", "must", "be", "a", "non-empty", "string">>)]
        ELSE [products |-> [prods EXCEPT ![i] = p4], resp |-> DataEnvelope(200, <<p4>>)]

\* router.put('/:id'): `product` aliases the array element, so every
\* assignment to it is a write to the store, made as soon as its own field
\* has been checked and before the next field is looked at
PutResult(prods, idParam, body, now) ==
    LET id == ParseInt(idParam)
        i == FindIndex(prods, id)
        p0 == prods[i]
        p1 == IF body.name # Undef THEN [p0 EXCEPT !.name = Str(Trim(body.name.s))] ELSE p0
        p2 == IF body.price # Undef THEN [p1 EXCEPT !.price = body.price] ELSE p1
        p3 == IF body.category # Undef THEN [p2 EXCEPT !.category = Str(Trim(body.category.s))] ELSE p2
        p4 == [p3 EXCEPT !.updatedAt = Iso(now)]
    IN  IF i = 0
        THEN [products |-> prods, resp |-> ErrorEnvelope(404, NotFoundText(id))]
        ELSE IF body.name # Undef /\ PutNameInvalid(body)
        THEN [products |-> prods,
              resp |-> ErrorEnvelope(400, <<"name", "must", "be", "a", "non-empty", "string">>)]
        ELSE IF body.price # Undef /\ PutPriceInvalid(body)
        THEN [products |-> [prods EXCEPT ![i] = p1],
              resp |-> ErrorEnvelope(400, <<"price", "must", "be", "a", "positive", "number">>)]
        ELSE IF body.category # Undef /\ PutCategoryInvalid(body)
        THEN [products |-> [prods EXCEPT ![i] = p2],
              resp |-> ErrorEnvelope(400, <<"category", "must", "be", "a", "non-empty", "string">>)]
        ELSE [products |-> [prods EXCEPT ![i] = p4], resp |-> DataEnvelope(200, <<p4>>)]

\* DeleteResult removing the last element (products.pop()) instead of the one found
DeleteResult_PopsLast(prods, idParam) ==
    LET id == ParseInt(idParam)
        i == FindIndex(prods, id)
    IN  IF i = 0
        THEN [products |-> prods, resp |-> ErrorEnvelope(404, NotFoundText(id))]
        ELSE [products |-> SubSeq(prods, 1, Len(prods) - 1),
              resp |-> MessageEnvelope(200, <<"Product", "with", "id">> \o IdText(id) \o <<"deleted", "successfully">>)]

\* router.delete('/:id')
DeleteResult(prods, idParam) ==
    LET id == ParseInt(idParam)
        i == FindIndex(prods, id)
    IN  IF i = 0
        THEN [products |-> prods, resp |-> ErrorEnvelope(404, NotFoundText(id))]
        ELSE [products |-> Splice(prods, i),
              resp |-> MessageEnvelope(200, <<"Product", "with", "id">> \o IdText(id) \o <<"deleted", "successfully">>)]

----------------------------------------------------------------------------
(* The Lambda handler over DynamoDB: unnamed/part_006 *)

\* (Uuid_Repeating: a generator that returns the same token on every call)
\* randomUUID(): the k-th call returns a token no earlier call returned.  The
\* ids a path can carry are those tokens, whether generated yet or not.
Uuid_Repeating(k) == <<"u", "1">>
Uuid(k) == <<"u", DigitChar(k)>>
Keys == {Uuid(k) : k \in 1..(IF MaxCreates > MaxConcCreates THEN MaxCreates ELSE MaxConcCreates)}

\* GetCommand's result.Item when the key holds no item
NoItem == [id |-> NoId, name |-> Undef, price |-> Undef, category |-> Undef,
           createdAt |-> Undef, updatedAt |-> Undef]

EmptyTable == [k \in Keys |-> NoItem]

\* docClient.send(new GetCommand({Key: {id}})).Item
DbGet(tbl, id) == tbl[id]

\* docClient.send(new PutCommand({Item}))
DbPut(tbl, item) == [tbl EXCEPT ![item.id] = item]

\* docClient.send(new UpdateCommand({Key: {id}, UpdateExpression: 'SET ...'}))
\* with no ConditionExpression: the named attributes are set on the item with
\* that key, and an item holding just the key is started when there is none
\* DbUpdate as a PutCommand would do it: the attributes the command does not
\* name are lost
DbUpdate_ReplacesItem(tbl, id, set) ==
    [tbl EXCEPT ![id] = [NoItem EXCEPT !.id = id, !.name = set.name, !.price = set.price,
                                       !.category = set.category, !.updatedAt = set.updatedAt]]

DbUpdate(tbl, id, set) ==
    LET base == IF tbl[id] = NoItem THEN [NoItem EXCEPT !.id = id] ELSE tbl[id]
    IN  [tbl EXCEPT ![id] =
            [base EXCEPT !.name = IF set.name # Undef THEN set.name ELSE @,
                         !.price = IF set.price # Undef THEN set.price ELSE @,
                         !.category = IF set.category # Undef THEN set.category ELSE @,
                         !.updatedAt = IF set.updatedAt # Undef THEN set.updatedAt ELSE @]]

\* docClient.send(new DeleteCommand({Key: {id}}))
DbDelete(tbl, id) == [tbl EXCEPT ![id] = NoItem]

\* CreateValidate checking the price before the name
CreateValidate_PriceFirst(body) ==
    IF body.price = Undef \/ body.price = Null
    THEN <<"Price", "is", "required">>
    ELSE IF body.price.t # "number" \/ body.price.n <= 0
    THEN <<"Price", "must", "be", "a", "positive", "number">>
    ELSE IF ~Truthy(body.name) \/ body.name.t # "string" \/ Trim(body.name.s) = <<>>
    THEN <<"Name", "is", "required", "and", "must", "be", "a", "non-empty", "string">>
    ELSE IF ~Truthy(body.category) \/ body.category.t # "string" \/ Trim(body.category.s) = <<>>
    THEN <<"Category", "is", "required", "and", "must", "be", "a", "non-empty", "string">>
    ELSE NoText

\* createProduct, the validation block
CreateValidate(body) ==
    IF ~Truthy(body.name) \/ body.name.t # "string" \/ Trim(body.name.s) = <<>>
    THEN <<"Name", "is", "required", "and", "must", "be", "a", "non-empty", "string">>
    ELSE IF body.price = Undef \/ body.price = Null
    THEN <<"Price", "is", "required">>
    ELSE IF body.price.t # "number" \/ body.price.n <= 0
    THEN <<"Price", "must", "be", "a", "positive", "number">>
    ELSE IF ~Truthy(body.category) \/ body.category.t # "string" \/ Trim(body.category.s) = <<>>
    THEN <<"Category", "is", "required", "and", "must", "be", "a", "non-empty", "string">>
    ELSE NoText

\* createProduct, the item built after validation
NewItem(uuid, body, now) ==
    [id |-> uuid, name |-> Str(Trim(body.name.s)), price |-> body.price,
     category |-> Str(Trim(body.category.s)), createdAt |-> Iso(now), updatedAt |-> Undef]

\* updateProduct, the validation block
UpdateValidate(body) ==
    IF body.name # Undef /\ (body.name.t # "string" \/ Trim(body.name.s) = <<>>)
    THEN <<"Name", "must", "be", "a", "non-empty", "string">>
    ELSE IF body.price # Undef /\ (body.price.t # "number" \/ body.price.n <= 0)
    THEN <<"Price", "must", "be", "a", "positive", "number">>
    ELSE IF body.category # Undef /\ (body.category.t # "string" \/ Trim(body.category.s) = <<>>)
    THEN <<"Category", "must", "be", "a", "non-empty", "string">>
    ELSE NoText

\* UpdateExpression naming updatedAt only when the body supplies a field
UpdateExpression_StampsChangesOnly(body, now) ==
    [name |-> IF body.name # Undef THEN Str(Trim(body.name.s)) ELSE Undef,
     price |-> IF body.price # Undef THEN body.price ELSE Undef,
     category |-> IF body.category # Undef THEN Str(Trim(body.category.s)) ELSE Undef,
     updatedAt |-> IF body.name = Undef /\ body.price = Undef /\ body.category = Undef
                   THEN Undef ELSE Iso(now)]

\* updateProduct, the SET clause: the attributes it names and their values
\* (Undef for an attribute the clause does not name)
UpdateExpression(body, now) ==
    [name |-> IF body.name # Undef THEN Str(Trim(body.name.s)) ELSE Undef,
     price |-> IF body.price # Undef THEN body.price ELSE Undef,
     category |-> IF body.category # Undef THEN Str(Trim(body.category.s)) ELSE Undef,
     updatedAt |-> Iso(now)]

NoSet == [name |-> Undef, price |-> Undef, category |-> Undef, updatedAt |-> Undef]

\* corsHeaders()
corsHeaders ==
    {<<"Content-Type", <<"application/json">>>>,
     <<"Access-Control-Allow-Origin", <<"*">>>>,
     <<"Access-Control-Allow-Methods", <<"GET", "POST", "PUT", "DELETE", "OPTIONS">>>>,
     <<"Access-Control-Allow-Headers", <<"Content-Type", "Authorization">>>>}

\* errorResponse(statusCode, error) and successResponse(statusCode, data)
errorResponse(statusCode, error) == [ErrorEnvelope(statusCode, error) EXCEPT !.headers = corsHeaders]
successResponse(statusCode, data) == [DataEnvelope(statusCode, data) EXCEPT !.headers = corsHeaders]

\* deleteProduct, the object literal it returns after the DeleteCommand
DeletedResponse ==
    [MessageEnvelope(200, <<"Product", "deleted", "successfully">>) EXCEPT !.headers = corsHeaders]

LambdaNotFoundText(id) == <<"Product", "with", "id">> \o id \o <<"not", "found">>

----------------------------------------------------------------------------
(* Inputs *)

ValidNames == {Str(<<" ", "a", " ">>), Str(<<"b">>)}
BadNames == {Null, Str(<<" ">>)}
ValidPrices == {Num(1), Num(2)}
BadPrices == {Null, Str(<<"1">>), Num(-1), Num(0)}
ValidCategories == {Str(<<"c", " ">>)}
BadCategories == {Null, Str(<<" ">>)}

Body(n, p, c) == [name |-> n, price |-> p, category |-> c, id |-> Undef, createdAt |-> Undef]

\* every subset of the three keys with acceptable values; every combination of
\* absent, unacceptable and acceptable fields; each unacceptable value on its
\* own; and bodies that also carry id and createdAt keys
Bodies ==
    {Body(n, p, c) : n \in {Undef} \cup ValidNames, p \in {Undef} \cup ValidPrices,
                     c \in {Undef} \cup ValidCategories}
    \cup
    {Body(n, p, c) : n \in {Undef, Str(<<" ">>), Str(<<"b">>)}, p \in {Undef, Num(0), Num(1)},
                     c \in {Undef, Str(<<" ">>), Str(<<"c", " ">>)}}
    \cup
    {Body(n, Num(1), Str(<<"c", " ">>)) : n \in BadNames}
    \cup
    {Body(Str(<<"b">>), p, Str(<<"c", " ">>)) : p \in BadPrices}
    \cup
    {Body(Str(<<"b">>), Num(1), c) : c \in BadCategories}
    \cup
    {[Body(n, p, Undef) EXCEPT !.id = Num(7), !.createdAt = Str(<<"x">>)] :
        n \in {Undef, Str(<<"b">>)}, p \in {Undef, Num(1)}}

\* the :id path parameter of the router: the decimal text of the ids that can
\* be issued, and texts parseInt reads only a prefix of, or nothing of
IdParams ==
    {NatText(k) : k \in 1..MaxCreates} \cup {<<"a">>, <<"1", ".", "5">>}

Workers == 1..NumWorkers

Range(f) == {f[i] : i \in DOMAIN f}

Orderings(S) == {f \in [1..Cardinality(S) -> S] : \A i, j \in DOMAIN f : i # j => f[i] # f[j]}

Ids(prods) == {prods[i].id : i \in DOMAIN prods}

----------------------------------------------------------------------------
(* Initial state: an empty array with nextId 1, an empty table *)

Idle == [pc |-> "idle", id |-> NoId, body |-> NoBody, set |-> NoSet]

AllIdle == \A w \in Workers : inv[w] = Idle

Init ==
    /\ deployment \in {"express", "lambda"}
    /\ products = <<>>
    /\ nextId = 1
    /\ table = EmptyTable
    /\ inv = [w \in Workers |-> Idle]
    /\ last = NoExchange
    /\ prev = IF deployment = "express" THEN products ELSE table
    /\ issued = <<>>
    /\ deleted = {}
    /\ updated = {}
    /\ batch = [pc |-> "idle", payments |-> <<>>, results |-> <<>>, log |-> <<>>]
    /\ users = <<>>

----------------------------------------------------------------------------
(* Express: one action per route handler; a handler runs to completion *)

\* the response has been sent and the exchange is over
EndExchange ==
    /\ last # NoExchange
    /\ last' = NoExchange
    /\ prev' = CASE deployment = "express" -> products
                 [] deployment = "users" -> users
                 [] OTHER -> table
    /\ UNCHANGED <<batch, deployment, updated, users, products, nextId, table, inv, issued, deleted>>

\* no exchange is awaiting the end of its response
Ready == last = NoExchange

MemList ==
    /\ deployment = "express"
    /\ Ready
    /\ last' = Exchange("list", NoId, NoBody, ListResult(products))
    /\ prev' = products
    /\ UNCHANGED <<batch, deployment, updated, users, products, nextId, table, inv, issued, deleted>>

MemGet(idParam) ==
    /\ deployment = "express"
    /\ Ready
    /\ last' = Exchange("get", idParam, NoBody, GetResult(products, idParam))
    /\ prev' = products
    /\ UNCHANGED <<batch, deployment, updated, users, products, nextId, table, inv, issued, deleted>>

MemCreate(body, now) ==
    LET r == PostResult(products, nextId, body, now)
    IN  /\ deployment = "express"
        /\ Ready
        /\ products' = r.products
        /\ nextId' = r.nextId
        /\ last' = Exchange("create", NoId, body, r.resp)
        /\ prev' = products
        /\ issued' = IF r.resp.status = 201 THEN Append(issued, r.resp.data[1].id) ELSE issued
        /\ UNCHANGED <<batch, deployment, updated, users, table, inv, deleted>>

MemUpdate(idParam, body, now) ==
    LET r == PutResult(products, idParam, body, now)
    IN  /\ deployment = "express"
        /\ Ready
        /\ products' = r.products
        /\ last' = Exchange("update", idParam, body, r.resp)
        /\ prev' = products
        /\ updated' = IF r.resp.status = 200 THEN updated \cup {r.resp.data[1].id} ELSE updated
        /\ UNCHANGED <<batch, deployment, users, nextId, table, inv, issued, deleted>>

MemDelete(idParam) ==
    LET r == DeleteResult(products, idParam)
    IN  /\ deployment = "express"
        /\ Ready
        /\ products' = r.products
        /\ last' = Exchange("delete", idParam, NoBody, r.resp)
        /\ prev' = products
        /\ deleted' = IF r.resp.status = 200 THEN deleted \cup {idParam} ELSE deleted
        /\ updated' = IF r.resp.status = 200 THEN updated \ {ParseInt(idParam).v} ELSE updated
        /\ UNCHANGED <<batch, deployment, users, nextId, table, inv, issued>>

----------------------------------------------------------------------------
(* Lambda: one action per DynamoDB round trip of an invocation w; the code  *)
(* between two awaits runs with the round trip that precedes it             *)

ListProducts(w, order) ==
    /\ deployment = "lambda"
    /\ Ready
    /\ inv[w] = Idle
    /\ order \in Orderings({table[k] : k \in {k \in Keys : table[k] # NoItem}})
    /\ last' = Exchange("list", NoId, NoBody, successResponse(200, order))
    /\ prev' = table
    /\ UNCHANGED <<batch, deployment, updated, users, products, nextId, table, inv, issued, deleted>>

GetProduct(w, id) ==
    /\ deployment = "lambda"
    /\ Ready
    /\ inv[w] = Idle
    /\ last' = Exchange("get", id, NoBody,
                        IF DbGet(table, id) = NoItem
                        THEN errorResponse(404, <<"Product", "not", "found">>)
                        ELSE successResponse(200, <<DbGet(table, id)>>))
    /\ prev' = table
    /\ UNCHANGED <<batch, deployment, updated, users, products, nextId, table, inv, issued, deleted>>

CreateProduct(w, body, now) ==
    LET err == CreateValidate(body)
        uuid == Uuid(Len(issued) + 1)
    IN  /\ deployment = "lambda"
        /\ Ready
        /\ inv[w] = Idle
        /\ IF err # NoText
           THEN /\ last' = Exchange("create", NoId, body, errorResponse(400, err))
                /\ UNCHANGED <<table, issued>>
           ELSE /\ table' = DbPut(table, NewItem(uuid, body, now))
                /\ last' = Exchange("create", NoId, body, successResponse(201, <<NewItem(uuid, body, now)>>))
                /\ issued' = Append(issued, uuid)
        /\ prev' = table
        /\ UNCHANGED <<batch, deployment, updated, users, products, nextId, inv, deleted>>

\* updateProduct up to the sending of the UpdateCommand
UpdateProductGet(w, id, body, now) ==
    LET err == UpdateValidate(body)
    IN  /\ deployment = "lambda"
        /\ inv[w] = Idle
        /\ IF DbGet(table, id) = NoItem
           THEN /\ Ready
                /\ last' = Exchange("update", id, body, errorResponse(404, LambdaNotFoundText(id)))
                /\ prev' = table
                /\ UNCHANGED inv
           ELSE IF err # NoText
           THEN /\ Ready
                /\ last' = Exchange("update", id, body, errorResponse(400, err))
                /\ prev' = table
                /\ UNCHANGED inv
           ELSE /\ inv' = [inv EXCEPT ![w] = [pc |-> "update", id |-> id, body |-> body,
                                              set |-> UpdateExpression(body, now)]]
                /\ UNCHANGED <<last, prev>>
        /\ UNCHANGED <<batch, deployment, updated, users, products, nextId, table, issued, deleted>>

\* updateProduct from the UpdateCommand on; ReturnValues ALL_NEW is the item as written
UpdateProductWrite(w) ==
    /\ deployment = "lambda"
    /\ Ready
    /\ inv[w].pc = "update"
    /\ table' = DbUpdate(table, inv[w].id, inv[w].set)
    /\ last' = Exchange("update", inv[w].id, inv[w].body, successResponse(200, <<table'[inv[w].id]>>))
    /\ prev' = table
    /\ inv' = [inv EXCEPT ![w] = Idle]
    /\ updated' = updated \cup {inv[w].id}
    /\ UNCHANGED <<batch, deployment, users, products, nextId, issued, deleted>>

\* deleteProduct up to the sending of the DeleteCommand
DeleteProductGet(w, id) ==
    /\ deployment = "lambda"
    /\ inv[w] = Idle
    /\ IF DbGet(table, id) = NoItem
       THEN /\ Ready
            /\ last' = Exchange("delete", id, NoBody, errorResponse(404, LambdaNotFoundText(id)))
            /\ prev' = table
            /\ UNCHANGED inv
       ELSE /\ inv' = [inv EXCEPT ![w] = [pc |-> "delete", id |-> id, body |-> NoBody, set |-> NoSet]]
            /\ UNCHANGED <<last, prev>>
    /\ UNCHANGED <<batch, deployment, updated, users, products, nextId, table, issued, deleted>>

\* deleteProduct from the DeleteCommand on
DeleteProductWrite(w) ==
    /\ deployment = "lambda"
    /\ Ready
    /\ inv[w].pc = "delete"
    /\ table' = DbDelete(table, inv[w].id)
    /\ last' = Exchange("delete", inv[w].id, NoBody, DeletedResponse)
    /\ prev' = table
    /\ deleted' = deleted \cup {inv[w].id}
    /\ inv' = [inv EXCEPT ![w] = Idle]
    /\ updated' = updated \ {inv[w].id}
    /\ UNCHANGED <<batch, deployment, users, products, nextId, issued>>

----------------------------------------------------------------------------
(* Spec: requests handled one after another, in either program *)

RouterList == MemList
RouterGet == Ready /\ \E idParam \in IdParams : MemGet(idParam)
RouterPost == Ready /\ \E body \in Bodies, now \in Instants :
                (PostValidate(body) = NoText => Len(issued) < MaxCreates) /\ MemCreate(body, now)
RouterPut == Ready /\ \E idParam \in IdParams, body \in Bodies, now \in Instants : MemUpdate(idParam, body, now)
RouterDelete == Ready /\ \E idParam \in IdParams : MemDelete(idParam)

SeqList == Ready /\ AllIdle /\ \E order \in Orderings(Range(table) \ {NoItem}) : ListProducts(1, order)
SeqGet == Ready /\ AllIdle /\ \E id \in Keys : GetProduct(1, id)
SeqCreate == Ready /\ AllIdle /\ \E body \in Bodies, now \in Instants :
                (CreateValidate(body) = NoText => Len(issued) < MaxCreates) /\ CreateProduct(1, body, now)
SeqUpdateGet == Ready /\ AllIdle /\ \E id \in Keys, body \in Bodies, now \in Instants : UpdateProductGet(1, id, body, now)
SeqUpdateWrite == UpdateProductWrite(1)
SeqDeleteGet == Ready /\ AllIdle /\ \E id \in Keys : DeleteProductGet(1, id)
SeqDeleteWrite == DeleteProductWrite(1)

Next ==
    \/ EndExchange
    \/ RouterList
    \/ RouterGet
    \/ RouterPost
    \/ RouterPut
    \/ RouterDelete
    \/ SeqList
    \/ SeqGet
    \/ SeqCreate
    \/ SeqUpdateGet
    \/ SeqUpdateWrite
    \/ SeqDeleteGet
    \/ SeqDeleteWrite

Spec == Init /\ [][Next]_vars

----------------------------------------------------------------------------
(* ConcSpec: Lambda invocations running concurrently against one table *)

ConcCreateBodies == {Body(Str(<<" ", "a", " ">>), Num(1), Str(<<"c", " ">>))}

ConcUpdateBodies ==
    {Body(n, p, Undef) : n \in {Undef, Str(<<"b">>)}, p \in {Undef, Num(2)}}
        \cup {Body(Undef, Num(0), Undef)}

ConcKeys == {Uuid(k) : k \in 1..MaxConcCreates}

ConcInit == Init /\ deployment = "lambda"

ConcList == Ready /\ \E w \in Workers : \E order \in Orderings(Range(table) \ {NoItem}) : ListProducts(w, order)
ConcGet == Ready /\ \E w \in Workers, id \in ConcKeys : GetProduct(w, id)
ConcCreate == Ready /\ Len(issued) < MaxConcCreates
                /\ \E w \in Workers, body \in ConcCreateBodies, now \in Instants : CreateProduct(w, body, now)
ConcUpdateGet == \E w \in Workers, id \in ConcKeys, body \in ConcUpdateBodies, now \in Instants : UpdateProductGet(w, id, body, now)
ConcUpdateWrite == \E w \in Workers : UpdateProductWrite(w)
ConcDeleteGet == \E w \in Workers, id \in ConcKeys : DeleteProductGet(w, id)
ConcDeleteWrite == \E w \in Workers : DeleteProductWrite(w)

ConcNext ==
    \/ EndExchange
    \/ ConcList
    \/ ConcGet
    \/ ConcCreate
    \/ ConcUpdateGet
    \/ ConcUpdateWrite
    \/ ConcDeleteGet
    \/ ConcDeleteWrite

ConcSpec == ConcInit /\ [][ConcNext]_vars

----------------------------------------------------------------------------
(* Vocabulary of the properties *)

\* word.toLowerCase(), over the capitalised words the messages use
LowerCase(word) ==
    CASE word = "Name" -> "name"
      [] word = "Price" -> "price"
      [] word = "Category" -> "category"
      [] word = "Product" -> "product"
      [] OTHER -> word

\* the message names the field
Mentions(text, field) == \E i \in DOMAIN text : LowerCase(text[i]) = field

FieldsNamed(text) == {f \in {"name", "price", "category"} : Mentions(text, f)}

\* the rules of a product's fields
NameRuleViolated(body) == body.name.t # "string" \/ Trim(body.name.s) = <<>>
PriceRuleViolated(body) == body.price.t # "number" \/ body.price.n <= 0
CategoryRuleViolated(body) == body.category.t # "string" \/ Trim(body.category.s) = <<>>

TrimmedNonEmpty(v) == v.t = "string" /\ v.s # <<>> /\ Trim(v.s) = v.s

WellFormed(p) ==
    /\ TrimmedNonEmpty(p.name)
    /\ TrimmedNonEmpty(p.category)
    /\ p.price.t = "number" /\ p.price.n > 0

\* the id parameter is the exact decimal text of the id of a product of prods
ExactlyStored(prods, idParam) == \E i \in DOMAIN prods : idParam = NatText(prods[i].id)

----------------------------------------------------------------------------
(* C1 *)

\* C1: in the in-memory router, whenever PUT /api/products/:id answers 400 the
\* store is exactly as it was before the request.
C1_Put400LeavesStore ==
    (deployment = "express" /\ last.op = "update" /\ last.status = 400) => products = prev

----------------------------------------------------------------------------
(* C2 *)

\* C2: in the in-memory router every product of the products array has a
\* trimmed non-empty name, a trimmed non-empty category and a price > 0.
C2_StoredProductsWellFormed ==
    deployment = "express" => \A i \in DOMAIN products : WellFormed(products[i])

\* a rejected update that has nevertheless written to a store of two products
C2_Witness ==
    /\ deployment = "express"
    /\ Len(products) >= 2
    /\ last.op = "update" /\ last.status = 400
    /\ products # prev

----------------------------------------------------------------------------
(* C3 *)

\* C3: in the in-memory router every successful create returns an id greater
\* than every id returned before it (deleted products included), and no two
\* stored products share an id.
C3_IdsFresh ==
    deployment = "express" =>
        /\ \A i, j \in DOMAIN issued : i < j => issued[i] < issued[j]
        /\ \A i, j \in DOMAIN products : i # j => products[i].id # products[j].id
        /\ Ids(products) \subseteq Range(issued)

\* a create that succeeded after an earlier product had been deleted
C3_Witness ==
    /\ deployment = "express"
    /\ Len(issued) >= 2
    /\ deleted # {}
    /\ last.op = "create" /\ last.status = 201
    /\ Len(products) = 1

----------------------------------------------------------------------------
(* C4 *)

\* C4: in the DynamoDB-backed handler, once deleteProduct(id) has returned 200
\* no item with that id is in the table at any later time, under every
\* interleaving of concurrent invocations.
C4_DeletedNeverResurrected ==
    deployment = "lambda" => \A id \in deleted : table[id] = NoItem

----------------------------------------------------------------------------
(* C5 *)

\* C5: in the DynamoDB-backed handler, under every interleaving, every item of
\* the table has its id, a trimmed non-empty name, a price > 0, a trimmed
\* non-empty category and createdAt.
C5_ItemsComplete ==
    deployment = "lambda" =>
        \A k \in Keys : table[k] # NoItem =>
            /\ table[k].id = k
            /\ WellFormed(table[k])
            /\ table[k].createdAt # Undef

----------------------------------------------------------------------------
(* C6 *)

\* C6: in both backends, run sequentially, after delete(id) has answered 200
\* every later get(id), update(id, ...) and delete(id) answers 404.
C6_DeletedStaysNotFound ==
    (last.op \in {"get", "update", "delete"} /\ last.afterDelete) => last.status = 404

\* an update of a deleted id, sent after another product was created, answered 404
C6_Witness ==
    /\ deployment = "lambda"
    /\ last.op = "update"
    /\ last.afterDelete
    /\ last.status = 404
    /\ Len(issued) >= 2
    /\ \E k \in Keys : table[k] # NoItem

----------------------------------------------------------------------------
(* C7 *)

\* C7: in the in-memory router GET, PUT and DELETE on /api/products/:id answer
\* 404 and leave the store unchanged whenever the id parameter is not exactly
\* the id of a currently stored product.
C7_InexactIdNotFound ==
    (/\ deployment = "express"
     /\ last.op \in {"get", "update", "delete"}
     /\ ~ExactlyStored(prev, last.idParam))
        => (last.status = 404 /\ products = prev)

----------------------------------------------------------------------------
(* C8 *)

\* the record-valued stores of the two backends, as functions from a position
\* or key to a record
StoreNow == IF deployment = "express" THEN products ELSE table
Occupied(store) ==
    IF deployment = "express" THEN DOMAIN store ELSE {k \in DOMAIN store : store[k] # NoItem}

\* C8: in both backends a successful update leaves every field that the body
\* does not supply among name, price and category as it was, and changes no
\* id and no createdAt, whatever else the body carries.
C8_UpdateFrame ==
    (last.op = "update" /\ last.status = 200) =>
        /\ Occupied(StoreNow) = Occupied(prev)
        /\ \A k \in Occupied(prev) :
            /\ StoreNow[k].id = prev[k].id
            /\ StoreNow[k].createdAt = prev[k].createdAt
            /\ last.body.name = Undef => StoreNow[k].name = prev[k].name
            /\ last.body.price = Undef => StoreNow[k].price = prev[k].price
            /\ last.body.category = Undef => StoreNow[k].category = prev[k].category

\* a successful update whose body carried id and createdAt keys and a name but no price
C8_Witness ==
    /\ last.op = "update" /\ last.status = 200
    /\ last.body.id # Undef /\ last.body.createdAt # Undef
    /\ last.body.name # Undef /\ last.body.price = Undef
    /\ StoreNow # prev

----------------------------------------------------------------------------
(* C9 *)

\* the last exchange is a create, or an update aimed at a stored product,
\* whose body supplies a price <= 0
NonPositivePriceSent ==
    /\ last.body.price.t = "number" /\ last.body.price.n <= 0
    /\ \/ last.op = "create"
       \/ last.op = "update" /\ deployment = "express" /\ ExactlyStored(prev, last.idParam)
       \/ last.op = "update" /\ deployment = "lambda" /\ prev[last.idParam] # NoItem

\* the last exchange added no product and wrote no price
NoPriceWritten ==
    /\ Occupied(StoreNow) = Occupied(prev)
    /\ \A k \in Occupied(prev) : StoreNow[k].price = prev[k].price

\* C9 as stated: in both backends, for every price <= 0, create answers 400 and
\* adds no product, update on an existing product answers 400 and never writes
\* that price, and the error string names the price field.
C9_NonPositivePriceNamesPrice ==
    NonPositivePriceSent =>
        (last.status = 400 /\ NoPriceWritten /\ Mentions(last.error, "price"))

\* C9 as amended: in both backends, for every price <= 0, create answers 400 and
\* adds no product, update on an existing product answers 400 and never writes
\* that price; the error string names the price field unless the name, which
\* is checked first, is itself rejected, and then it names the name field.
C9_NonPositivePriceRejected ==
    NonPositivePriceSent =>
        /\ last.status = 400
        /\ NoPriceWritten
        /\ IF (last.op = "create" \/ last.body.name # Undef) /\ NameRuleViolated(last.body)
           THEN Mentions(last.error, "name")
           ELSE Mentions(last.error, "price")

\* an update with an acceptable name and a price <= 0 was answered 400 naming price
C9_Witness ==
    /\ last.op = "update"
    /\ NonPositivePriceSent
    /\ last.body.name # Undef /\ ~NameRuleViolated(last.body)
    /\ last.status = 400
    /\ Mentions(last.error, "price")

----------------------------------------------------------------------------
(* C10 *)

\* the product a successful create returned is in the store, which is
\* otherwise as before
CreatedStored ==
    /\ last.status = 201 /\ Len(last.data) = 1
    /\ IF deployment = "express"
       THEN products = Append(prev, last.data[1])
       ELSE /\ prev[last.data[1].id] = NoItem
            /\ table = [prev EXCEPT ![last.data[1].id] = last.data[1]]

\* C10: in both backends create checks name, then price, then category and
\* reports exactly one error, that of the first violated rule; a body that
\* violates none is stored.
C10_CreateFirstViolationWins ==
    last.op = "create" =>
        IF NameRuleViolated(last.body)
        THEN last.status = 400 /\ FieldsNamed(last.error) = {"name"}
        ELSE IF PriceRuleViolated(last.body)
        THEN last.status = 400 /\ FieldsNamed(last.error) = {"price"}
        ELSE IF CategoryRuleViolated(last.body)
        THEN last.status = 400 /\ FieldsNamed(last.error) = {"category"}
        ELSE CreatedStored

\* a create violating all three rules was answered with the name error
C10_Witness ==
    /\ last.op = "create"
    /\ NameRuleViolated(last.body) /\ PriceRuleViolated(last.body) /\ CategoryRuleViolated(last.body)
    /\ last.body.name # Undef
    /\ last.status = 400
    /\ FieldsNamed(last.error) = {"name"}

----------------------------------------------------------------------------
(* C11 *)

\* the last exchange was aimed at an id under which the store held no product
\* when the request arrived
TargetMissing ==
    IF deployment = "express"
    THEN ~ExactlyStored(prev, last.idParam)
    ELSE prev[last.idParam] = NoItem

\* C11: in both backends an update on an id with no stored product answers 404
\* whatever the body is, never 400, and writes nothing.
C11_UpdateMissingIs404 ==
    (last.op = "update" /\ TargetMissing) => (last.status = 404 /\ StoreNow = prev)

----------------------------------------------------------------------------
(* PairSpec: every request is sent to the router and to the handler, the    *)
(* k-th product the router issued being matched with the k-th of the handler *)

\* a command handed to docClient.send(): its kind, its Key (the Item's id for a
\* PutCommand, none for a ScanCommand) and, for an UpdateCommand, its SET clause
Command(cmd, key, set) == [cmd |-> cmd, key |-> key, set |-> set]

\* an invocation of the handler with no other invocation between its round
\* trips: the table it leaves, its response, and the commands it sent
GetProductResult(tbl, id) ==
    IF DbGet(tbl, id) = NoItem
    THEN errorResponse(404, <<"Product", "not", "found">>)
    ELSE successResponse(200, <<DbGet(tbl, id)>>)

CreateProductResult(tbl, uuid, body, now) ==
    IF CreateValidate(body) # NoText
    THEN [table |-> tbl, resp |-> errorResponse(400, CreateValidate(body)), sent |-> <<>>]
    ELSE [table |-> DbPut(tbl, NewItem(uuid, body, now)),
          resp |-> successResponse(201, <<NewItem(uuid, body, now)>>),
          sent |-> <<Command("Put", uuid, NoSet)>>]

\* UpdateProductResult with the time stamp written before the fields are
\* validated
UpdateProductResult_StampsFirst(tbl, id, body, now) ==
    LET stamp == [NoSet EXCEPT !.updatedAt = Iso(now)]
    IN  IF DbGet(tbl, id) = NoItem
        THEN [table |-> tbl, resp |-> errorResponse(404, LambdaNotFoundText(id)),
              sent |-> <<Command("Get", id, NoSet)>>]
        ELSE IF UpdateValidate(body) # NoText
        THEN [table |-> DbUpdate(tbl, id, stamp), resp |-> errorResponse(400, UpdateValidate(body)),
              sent |-> <<Command("Get", id, NoSet), Command("Update", id, stamp)>>]
        ELSE [table |-> DbUpdate(tbl, id, UpdateExpression(body, now)),
              resp |-> successResponse(200, <<DbUpdate(tbl, id, UpdateExpression(body, now))[id]>>),
              sent |-> <<Command("Get", id, NoSet), Command("Update", id, stamp),
                         Command("Update", id, UpdateExpression(body, now))>>]

UpdateProductResult(tbl, id, body, now) ==
    IF DbGet(tbl, id) = NoItem
    THEN [table |-> tbl, resp |-> errorResponse(404, LambdaNotFoundText(id)),
          sent |-> <<Command("Get", id, NoSet)>>]
    ELSE IF UpdateValidate(body) # NoText
    THEN [table |-> tbl, resp |-> errorResponse(400, UpdateValidate(body)),
          sent |-> <<Command("Get", id, NoSet)>>]
    ELSE [table |-> DbUpdate(tbl, id, UpdateExpression(body, now)),
          resp |-> successResponse(200, <<DbUpdate(tbl, id, UpdateExpression(body, now))[id]>>),
          sent |-> <<Command("Get", id, NoSet), Command("Update", id, UpdateExpression(body, now))>>]

DeleteProductResult(tbl, id) ==
    IF DbGet(tbl, id) = NoItem
    THEN [table |-> tbl, resp |-> errorResponse(404, LambdaNotFoundText(id)),
          sent |-> <<Command("Get", id, NoSet)>>]
    ELSE [table |-> DbDelete(tbl, id),
          resp |-> DeletedResponse,
          sent |-> <<Command("Get", id, NoSet), Command("Delete", id, NoSet)>>]

\* one request and the two responses to it
PairExchange(op, k, body, mem, ddb) ==
    [op |-> op, k |-> k, body |-> body, mem |-> mem, ddb |-> ddb]

PairInit ==
    /\ deployment = "both"
    /\ products = <<>>
    /\ nextId = 1
    /\ table = EmptyTable
    /\ inv = [w \in Workers |-> Idle]
    /\ last = NoExchange
    /\ prev = table
    /\ issued = <<>>
    /\ deleted = {}
    /\ updated = {}
    /\ batch = [pc |-> "idle", payments |-> <<>>, results |-> <<>>, log |-> <<>>]
    /\ users = <<>>

PairList ==
    /\ deployment = "both"
    /\ Ready
    /\ \E order \in Orderings(Range(table) \ {NoItem}) :
        last' = PairExchange("list", 0, NoBody, ListResult(products), successResponse(200, order))
    /\ UNCHANGED <<batch, deployment, updated, users, products, nextId, table, inv, prev, issued, deleted>>

PairGet ==
    /\ deployment = "both"
    /\ Ready
    /\ \E k \in 1..MaxCreates :
        last' = PairExchange("get", k, NoBody, GetResult(products, NatText(k)),
                             GetProductResult(table, Uuid(k)))
    /\ UNCHANGED <<batch, deployment, updated, users, products, nextId, table, inv, prev, issued, deleted>>

PairCreate ==
    /\ deployment = "both"
    /\ Ready
    /\ \E body \in Bodies, now \in Instants :
        LET mem == PostResult(products, nextId, body, now)
            ddb == CreateProductResult(table, Uuid(Len(issued) + 1), body, now)
        IN  /\ ddb.resp.status = 201 => Len(issued) < MaxCreates
            /\ mem.resp.status = 201 => nextId <= MaxCreates
            /\ products' = mem.products
            /\ nextId' = mem.nextId
            /\ table' = ddb.table
            /\ issued' = IF ddb.resp.status = 201 THEN Append(issued, Uuid(Len(issued) + 1)) ELSE issued
            /\ last' = PairExchange("create", 0, body, mem.resp, ddb.resp)
    /\ UNCHANGED <<batch, deployment, updated, users, inv, prev, deleted>>

PairUpdate ==
    /\ deployment = "both"
    /\ Ready
    /\ \E k \in 1..MaxCreates, body \in Bodies, now \in Instants :
        LET mem == PutResult(products, NatText(k), body, now)
            ddb == UpdateProductResult(table, Uuid(k), body, now)
        IN  /\ products' = mem.products
            /\ table' = ddb.table
            /\ last' = PairExchange("update", k, body, mem.resp, ddb.resp)
    /\ UNCHANGED <<batch, deployment, updated, users, nextId, inv, prev, issued, deleted>>

PairDelete ==
    /\ deployment = "both"
    /\ Ready
    /\ \E k \in 1..MaxCreates :
        LET mem == DeleteResult(products, NatText(k))
            ddb == DeleteProductResult(table, Uuid(k))
        IN  /\ products' = mem.products
            /\ table' = ddb.table
            /\ last' = PairExchange("delete", k, NoBody, mem.resp, ddb.resp)
    /\ UNCHANGED <<batch, deployment, updated, users, nextId, inv, prev, issued, deleted>>

PairNext ==
    \/ EndExchange
    \/ PairList
    \/ PairGet
    \/ PairCreate
    \/ PairUpdate
    \/ PairDelete

PairSpec == PairInit /\ [][PairNext]_vars

----------------------------------------------------------------------------
(* C12 *)

\* what the claim compares of a returned product: the position of its id in
\* the order of issue, its three fields, and whether updatedAt is present
MemView(p) ==
    [k |-> p.id, name |-> p.name, price |-> p.price, category |-> p.category,
     updated |-> p.updatedAt # Undef]
ItemView(item) ==
    [k |-> CHOOSE k \in 1..Cardinality(Keys) : Uuid(k) = item.id, name |-> item.name,
     price |-> item.price, category |-> item.category, updated |-> item.updatedAt # Undef]

Agree(mem, ddb) ==
    /\ mem.status = ddb.status
    /\ mem.success = ddb.success
    /\ Len(mem.data) = Len(ddb.data)
    /\ {MemView(mem.data[i]) : i \in DOMAIN mem.data} = {ItemView(ddb.data[i]) : i \in DOMAIN ddb.data}

\* C12: for every sequence of list, get, create, update and delete requests
\* sent one after another to both backends with the same bodies and matched
\* ids, the router and the handler answer each request with the same status
\* and success flag, and the products they return agree on name, price,
\* category and on whether updatedAt is present.
C12_SameAnswers ==
    (deployment = "both" /\ last # NoExchange) => Agree(last.mem, last.ddb)

----------------------------------------------------------------------------
(* C13 *)

\* the body breaks a rule of a field that the operation checks: every field
\* on create, the supplied fields on update
BodyRejected ==
    IF last.op = "create"
    THEN NameRuleViolated(last.body) \/ PriceRuleViolated(last.body) \/ CategoryRuleViolated(last.body)
    ELSE /\ last.op = "update"
         /\ \/ last.body.name # Undef /\ NameRuleViolated(last.body)
            \/ last.body.price # Undef /\ PriceRuleViolated(last.body)
            \/ last.body.category # Undef /\ CategoryRuleViolated(last.body)

\* the status the outcome of the last exchange calls for
StatusOfOutcome ==
    IF last.op = "list" THEN 200
    ELSE IF last.op = "create" THEN (IF BodyRejected THEN 400 ELSE 201)
    ELSE IF TargetMissing THEN 404
    ELSE IF BodyRejected THEN 400
    ELSE 200

\* C13: in both adapters the status is 201 exactly for a successful create, 200
\* exactly for a successful list, get, update or delete, 400 for every
\* validation failure and 404 for every missing id; success is true exactly
\* when the status is 200 or 201, and then the response carries data (a
\* message for delete) and no error; every other response carries success
\* false and an error string.
C13_StatusByOutcome ==
    last.op \in {"list", "get", "create", "update", "delete"} =>
        /\ last.status = StatusOfOutcome
        /\ last.success <=> last.status \in {200, 201}
        /\ last.success =>
            /\ last.error = NoText
            /\ last.op = "delete" => last.message # NoText
            /\ last.op \in {"get", "create", "update"} => Len(last.data) = 1
        /\ ~last.success => (last.error # NoText /\ last.data = <<>> /\ last.message = NoText)

----------------------------------------------------------------------------
(* C14 *)

\* the headers allow any origin and the five methods
HasCors(headers) ==
    /\ <<"Access-Control-Allow-Origin", <<"*">>>> \in headers
    /\ \E h \in headers :
        /\ h[1] = "Access-Control-Allow-Methods"
        /\ {"GET", "POST", "PUT", "DELETE", "OPTIONS"} \subseteq Range(h[2])

\* C14: every response of the Express products router and of the Lambda
\* handler carries Access-Control-Allow-Origin '*' and an
\* Access-Control-Allow-Methods that covers GET, POST, PUT, DELETE and OPTIONS.
C14_EveryResponseHasCors ==
    last # NoExchange => HasCors(last.headers)

----------------------------------------------------------------------------
(* FaultSpec: the handler, one invocation at a time, over a DynamoDB whose   *)
(* calls can fail                                                           *)

\* the messages of the exceptions docClient.send() throws
Exceptions ==
    {<<"ProvisionedThroughputExceededException">>, <<"Requested", "resource", "not", "found">>}

\* a promise rejected with the exception: no response, status 0
Rejected(exc) == [ErrorEnvelope(0, exc) EXCEPT !.headers = {}]

\* Catch handing the exception's message to the caller
Catch_LeaksMessage(outcome, generic) ==
    IF outcome.status = 0 THEN errorResponse(500, outcome.error) ELSE outcome

\* try { ... } catch (error) { console.error(...); return errorResponse(500, generic) }
\* around an outcome that is a response or a thrown exception
Catch(outcome, generic) ==
    IF outcome.status = 0 THEN errorResponse(500, generic) ELSE outcome

\* an exchange during which a DynamoDB call threw exc
FaultExchange(op, idParam, body, exc, generic) ==
    [Exchange(op, idParam, body, Catch(Rejected(exc), generic)) EXCEPT !.thrown = exc]

FaultInit == Init /\ deployment = "lambda"

\* the bodies of the requests during which a call fails: one that passes
\* every check, one that supplies a price alone, one that is rejected
FaultBodies ==
    {Body(Str(<<"b">>), Num(1), Str(<<"c", " ">>)), Body(Undef, Num(2), Undef),
     Body(Undef, Num(0), Undef)}

\* createProduct and updateProduct with no call failing, on these bodies
NoFaultCreate ==
    Ready /\ AllIdle /\ \E body \in FaultBodies, now \in Instants :
        (CreateValidate(body) = NoText => Len(issued) < MaxCreates) /\ CreateProduct(1, body, now)
NoFaultUpdateGet ==
    Ready /\ AllIdle /\ \E id \in Keys, body \in FaultBodies, now \in Instants :
        UpdateProductGet(1, id, body, now)

\* listProducts, the ScanCommand throwing
FaultList ==
    /\ deployment = "lambda"
    /\ Ready /\ AllIdle
    /\ \E exc \in Exceptions :
        last' = FaultExchange("list", NoId, NoBody, exc, <<"Failed", "to", "list", "products">>)
    /\ prev' = table
    /\ UNCHANGED <<batch, deployment, updated, users, products, nextId, table, inv, issued, deleted>>

\* getProduct, the GetCommand throwing
FaultGet ==
    /\ deployment = "lambda"
    /\ Ready /\ AllIdle
    /\ \E id \in Keys, exc \in Exceptions :
        last' = FaultExchange("get", id, NoBody, exc, <<"Failed", "to", "get", "product">>)
    /\ prev' = table
    /\ UNCHANGED <<batch, deployment, updated, users, products, nextId, table, inv, issued, deleted>>

\* createProduct, the PutCommand throwing: the id has been generated, and the
\* item has been written or not
FaultCreate ==
    /\ deployment = "lambda"
    /\ Ready /\ AllIdle
    /\ Len(issued) < MaxCreates
    /\ \E body \in FaultBodies, now \in Instants, exc \in Exceptions, written \in BOOLEAN :
        /\ CreateValidate(body) = NoText
        /\ table' = IF written THEN DbPut(table, NewItem(Uuid(Len(issued) + 1), body, now)) ELSE table
        /\ last' = FaultExchange("create", NoId, body, exc, <<"Failed", "to", "create", "product">>)
    /\ issued' = Append(issued, Uuid(Len(issued) + 1))
    /\ prev' = table
    /\ UNCHANGED <<batch, deployment, updated, users, products, nextId, inv, deleted>>

\* updateProduct, its GetCommand throwing
FaultUpdateGet ==
    /\ deployment = "lambda"
    /\ Ready /\ AllIdle
    /\ \E id \in Keys, body \in FaultBodies, exc \in Exceptions :
        last' = FaultExchange("update", id, body, exc, <<"Failed", "to", "update", "product">>)
    /\ prev' = table
    /\ UNCHANGED <<batch, deployment, updated, users, products, nextId, table, inv, issued, deleted>>

\* updateProduct, its UpdateCommand throwing: the attributes have been set or not
FaultUpdateWrite ==
    /\ deployment = "lambda"
    /\ Ready
    /\ inv[1].pc = "update"
    /\ \E exc \in Exceptions, written \in BOOLEAN :
        /\ table' = IF written THEN DbUpdate(table, inv[1].id, inv[1].set) ELSE table
        /\ last' = FaultExchange("update", inv[1].id, inv[1].body, exc,
                                 <<"Failed", "to", "update", "product">>)
    /\ prev' = table
    /\ inv' = [inv EXCEPT ![1] = Idle]
    /\ UNCHANGED <<batch, deployment, updated, users, products, nextId, issued, deleted>>

\* deleteProduct, its GetCommand throwing
FaultDeleteGet ==
    /\ deployment = "lambda"
    /\ Ready /\ AllIdle
    /\ \E id \in Keys, exc \in Exceptions :
        last' = FaultExchange("delete", id, NoBody, exc, <<"Failed", "to", "delete", "product">>)
    /\ prev' = table
    /\ UNCHANGED <<batch, deployment, updated, users, products, nextId, table, inv, issued, deleted>>

\* deleteProduct, its DeleteCommand throwing: the item has been removed or not
FaultDeleteWrite ==
    /\ deployment = "lambda"
    /\ Ready
    /\ inv[1].pc = "delete"
    /\ \E exc \in Exceptions, written \in BOOLEAN :
        /\ table' = IF written THEN DbDelete(table, inv[1].id) ELSE table
        /\ last' = FaultExchange("delete", inv[1].id, NoBody, exc,
                                 <<"Failed", "to", "delete", "product">>)
    /\ prev' = table
    /\ inv' = [inv EXCEPT ![1] = Idle]
    /\ updated' = IF table'[inv[1].id] = NoItem THEN updated \ {inv[1].id} ELSE updated
    /\ UNCHANGED <<batch, deployment, users, products, nextId, issued, deleted>>

FaultNext ==
    \/ EndExchange
    \/ SeqList
    \/ SeqGet
    \/ NoFaultCreate
    \/ NoFaultUpdateGet
    \/ SeqUpdateWrite
    \/ SeqDeleteGet
    \/ SeqDeleteWrite
    \/ FaultList
    \/ FaultGet
    \/ FaultCreate
    \/ FaultUpdateGet
    \/ FaultUpdateWrite
    \/ FaultDeleteGet
    \/ FaultDeleteWrite

FaultSpec == FaultInit /\ [][FaultNext]_vars

----------------------------------------------------------------------------
(* C15 *)

\* the error strings of the handler's catch blocks
GenericErrors ==
    {<<"Failed", "to", "list", "products">>, <<"Failed", "to", "get", "product">>,
     <<"Failed", "to", "create", "product">>, <<"Failed", "to", "update", "product">>,
     <<"Failed", "to", "delete", "product">>, <<"Internal", "Server", "Error">>}

\* part occurs in text as consecutive words
Contains(text, part) ==
    \E i \in 0..(Len(text) - Len(part)) : SubSeq(text, i + 1, i + Len(part)) = part

\* C15: in the Lambda handler an invocation during which a DynamoDB call
\* (scan, get, put, update, delete) fails is not rejected: it returns status
\* 500 with success false and one of the fixed generic error strings, which
\* contains nothing of the message of the exception caught.
C15_DbFailureIsGeneric500 ==
    last.thrown # NoText =>
        /\ last.status = 500
        /\ ~last.success
        /\ last.error \in GenericErrors
        /\ ~Contains(last.error, last.thrown)
        /\ \A i \in DOMAIN last.thrown : ~Contains(last.error, <<last.thrown[i]>>)

\* the UpdateCommand of an update of a stored product threw after the
\* attributes had been set, and the invocation answered 500
C15_Witness ==
    /\ last.op = "update"
    /\ last.thrown # NoText
    /\ last.status = 500
    /\ prev[last.idParam] # NoItem
    /\ table # prev

----------------------------------------------------------------------------
(* C16 *)

\* the ids of the products that deletes answered 200 have removed
DeletedIds == {ParseInt(idParam).v : idParam \in deleted}

\* C16: in the in-memory router list answers 200 with exactly the products
\* that were successfully created and not yet deleted, each once, in the order
\* of their creation (ascending id); with none of them, an empty array.
C16_ListIsCreatedNotDeleted ==
    (deployment = "express" /\ last.op = "list") =>
        /\ last.status = 200 /\ last.success
        /\ last.data = products
        /\ Ids(last.data) = Range(issued) \ DeletedIds
        /\ \A i, j \in DOMAIN last.data : i < j => last.data[i].id < last.data[j].id
        /\ Range(issued) \subseteq DeletedIds => last.data = <<>>

\* a list of the one product that remains after two were created and the
\* first deleted
C16_Witness ==
    /\ deployment = "express"
    /\ last.op = "list"
    /\ Len(issued) = 2
    /\ issued[1] \in DeletedIds
    /\ Len(last.data) = 1
    /\ last.data[1].id = issued[2]

----------------------------------------------------------------------------
(* C17 *)

\* C17: in both backends every successful create adds exactly one new record,
\* under an id no record had, and changes no existing record; so creates with
\* identical name, price and category yield distinct products with different
\* ids, and while nothing has been deleted the store holds as many products
\* as creates have succeeded.
C17_CreateAddsOne ==
    /\ (last.op = "create" /\ last.status = 201) =>
        /\ CreatedStored
        /\ Cardinality(Occupied(StoreNow)) = Cardinality(Occupied(prev)) + 1
        /\ \A k \in Occupied(prev) : prev[k].id # last.data[1].id /\ StoreNow[k] = prev[k]
    /\ \A i, j \in DOMAIN issued : i # j => issued[i] # issued[j]
    /\ (deployment \in {"express", "lambda"} /\ deleted = {}) =>
        Cardinality(Occupied(StoreNow)) = Len(issued)

\* the second of two creates with the same body succeeded in the DynamoDB
\* handler, and the table holds two items equal in name, price and category
C17_Witness ==
    /\ deployment = "lambda"
    /\ last.op = "create" /\ last.status = 201
    /\ Len(issued) = 2
    /\ deleted = {}
    /\ table[issued[1]] # NoItem /\ table[issued[2]] # NoItem
    /\ table[issued[1]].name = table[issued[2]].name
    /\ table[issued[1]].price = table[issued[2]].price
    /\ table[issued[1]].category = table[issued[2]].category

----------------------------------------------------------------------------
(* C18 *)

\* C18: in both backends, requests handled one after another, a stored product
\* has updatedAt defined exactly when an update of it has answered 200 since
\* it was created: create leaves it undefined, a rejected update does not set
\* it, and every successful update sets it, whatever fields its body supplies.
C18_UpdatedAtIffUpdated ==
    /\ deployment \in {"express", "lambda"} =>
        \A k \in Occupied(StoreNow) : (StoreNow[k].updatedAt # Undef) <=> (StoreNow[k].id \in updated)
    /\ (last.op = "create" /\ last.status = 201) => last.data[1].updatedAt = Undef
    /\ (last.op = "update" /\ last.status = 200) => last.data[1].updatedAt # Undef

\* an update supplying none of name, price, category answered 200 and its
\* product now has updatedAt, while another product, created before it and
\* never updated, has none
C18_Witness ==
    /\ last.op = "update" /\ last.status = 200
    /\ last.body.name = Undef /\ last.body.price = Undef /\ last.body.category = Undef
    /\ last.data[1].updatedAt # Undef
    /\ last.data[1].id \in updated
    /\ \E k \in Occupied(StoreNow) : StoreNow[k].updatedAt = Undef
    /\ \E k \in Occupied(prev) : prev[k].id = last.data[1].id /\ prev[k].updatedAt = Undef

----------------------------------------------------------------------------
(* The Users router: express-demo/src/routes/users.ts.  The Map is the      *)
(* sequence of its values in insertion order, each value carrying its key   *)

\* users.get(id): the position of the value under that key, 0 for undefined
RECURSIVE UserIndexFrom(_, _, _)
UserIndexFrom(us, id, i) ==
    IF i > Len(us) THEN 0
    ELSE IF us[i].id = id THEN i
    ELSE UserIndexFrom(us, id, i + 1)
UserIndex(us, id) == UserIndexFrom(us, id, 1)

\* Array.from(users.values()).find(u => u.email === email): the position of
\* the first such user, 0 for undefined
RECURSIVE EmailIndexFrom(_, _, _)
EmailIndexFrom(us, email, i) ==
    IF i > Len(us) THEN 0
    ELSE IF us[i].email = email THEN i
    ELSE EmailIndexFrom(us, email, i + 1)
EmailIndex(us, email) == EmailIndexFrom(us, email, 1)

\* users.set(id, user): a key already present keeps its place
UsersSet(us, id, user) ==
    IF UserIndex(us, id) = 0 THEN Append(us, user)
    ELSE [us EXCEPT ![UserIndex(us, id)] = user]

\* users.delete(id)
UsersDelete(us, id) == Splice(us, UserIndex(us, id))

UserNotFound == ErrorEnvelope(404, <<"User", "not", "found">>)
EmailTaken == ErrorEnvelope(409, <<"User", "with", "this", "email", "already", "exists">>)

\* router.get('/'); the envelope's count key is data.length
UserListResult(us) == DataEnvelope(200, us)

\* router.get('/:id')
UserGetResult(us, id) ==
    IF UserIndex(us, id) = 0 THEN UserNotFound
    ELSE DataEnvelope(200, <<us[UserIndex(us, id)]>>)

\* UserPostResult looking for the email before it looks at the required fields
UserPostResult_DuplicateFirst(us, uuid, body, now) ==
    LET user == [id |-> uuid, name |-> body.name, email |-> body.email, createdAt |-> Iso(now)]
    IN  IF EmailIndex(us, body.email) # 0
        THEN [users |-> us, resp |-> EmailTaken]
        ELSE IF ~Truthy(body.name) \/ ~Truthy(body.email)
        THEN [users |-> us, resp |-> ErrorEnvelope(400, <<"Name", "and", "email", "are", "required">>)]
        ELSE [users |-> UsersSet(us, uuid, user), resp |-> DataEnvelope(201, <<user>>)]

\* router.post('/'), uuid being the value uuidv4() returns when it is reached
UserPostResult(us, uuid, body, now) ==
    LET user == [id |-> uuid, name |-> body.name, email |-> body.email, createdAt |-> Iso(now)]
    IN  IF ~Truthy(body.name) \/ ~Truthy(body.email)
        THEN [users |-> us, resp |-> ErrorEnvelope(400, <<"Name", "and", "email", "are", "required">>)]
        ELSE IF EmailIndex(us, body.email) # 0
        THEN [users |-> us, resp |-> EmailTaken]
        ELSE [users |-> UsersSet(us, uuid, user), resp |-> DataEnvelope(201, <<user>>)]

\* UserPutResult without the search for another user holding the email
UserPutResult_Unchecked(us, id, body) ==
    LET i == UserIndex(us, id)
        user == us[i]
        updatedUser == [user EXCEPT !.name = IF Truthy(body.name) THEN body.name ELSE @,
                                    !.email = IF Truthy(body.email) THEN body.email ELSE @]
    IN  IF i = 0
        THEN [users |-> us, resp |-> UserNotFound]
        ELSE [users |-> UsersSet(us, id, updatedUser), resp |-> DataEnvelope(200, <<updatedUser>>)]

\* UserPutResult taking name and email from the body whenever the key is there
UserPutResult_AssignsSupplied(us, id, body) ==
    LET i == UserIndex(us, id)
        user == us[i]
        updatedUser == [user EXCEPT !.name = IF body.name # Undef THEN body.name ELSE @,
                                    !.email = IF body.email # Undef THEN body.email ELSE @]
    IN  IF i = 0
        THEN [users |-> us, resp |-> UserNotFound]
        ELSE IF Truthy(body.email) /\ body.email # user.email /\ EmailIndex(us, body.email) # 0
        THEN [users |-> us, resp |-> EmailTaken]
        ELSE [users |-> UsersSet(us, id, updatedUser), resp |-> DataEnvelope(200, <<updatedUser>>)]

\* router.put('/:id')
UserPutResult(us, id, body) ==
    LET i == UserIndex(us, id)
        user == us[i]
        updatedUser == [user EXCEPT !.name = IF Truthy(body.name) THEN body.name ELSE @,
                                    !.email = IF Truthy(body.email) THEN body.email ELSE @]
    IN  IF i = 0
        THEN [users |-> us, resp |-> UserNotFound]
        ELSE IF Truthy(body.email) /\ body.email # user.email /\ EmailIndex(us, body.email) # 0
        THEN [users |-> us, resp |-> EmailTaken]
        ELSE [users |-> UsersSet(us, id, updatedUser), resp |-> DataEnvelope(200, <<updatedUser>>)]

\* router.delete('/:id')
UserDeleteResult(us, id) ==
    IF UserIndex(us, id) = 0
    THEN [users |-> us, resp |-> UserNotFound]
    ELSE [users |-> UsersDelete(us, id),
          resp |-> MessageEnvelope(200, <<"User", "deleted", "successfully">>)]

\* the request bodies: name and email absent, null, empty or a string
UserNames == {Undef, Null, Str(<<>>), Str(<<"a">>), Str(<<"b">>)}
UserEmails == {Undef, Null, Str(<<>>), Str(<<"x">>), Str(<<"y">>)}
UserBodies == {[name |-> n, email |-> e] : n \in UserNames, e \in UserEmails}
NoUserBody == [name |-> Undef, email |-> Undef]

\* the :id path parameters: the ids uuidv4() can return, returned yet or not
UserKeys == {Uuid(k) : k \in 1..MaxUsers}

UsersInit ==
    /\ deployment = "users"
    /\ products = <<>>
    /\ nextId = 1
    /\ table = EmptyTable
    /\ inv = [w \in Workers |-> Idle]
    /\ last = NoExchange
    /\ prev = <<>>
    /\ issued = <<>>
    /\ deleted = {}
    /\ updated = {}
    /\ batch = [pc |-> "idle", payments |-> <<>>, results |-> <<>>, log |-> <<>>]
    /\ users = <<>>

UsersList ==
    /\ deployment = "users"
    /\ Ready
    /\ last' = Exchange("list", NoId, NoUserBody, UserListResult(users))
    /\ prev' = users
    /\ UNCHANGED <<batch, deployment, updated, users, products, nextId, table, inv, issued, deleted>>

UsersGet ==
    /\ deployment = "users"
    /\ Ready
    /\ \E id \in UserKeys : last' = Exchange("get", id, NoUserBody, UserGetResult(users, id))
    /\ prev' = users
    /\ UNCHANGED <<batch, deployment, updated, users, products, nextId, table, inv, issued, deleted>>

UsersCreate ==
    /\ deployment = "users"
    /\ Ready
    /\ \E body \in UserBodies, now \in Instants :
        LET r == UserPostResult(users, Uuid(Len(issued) + 1), body, now)
        IN  /\ r.resp.status = 201 => Len(issued) < MaxUsers
            /\ users' = r.users
            /\ last' = Exchange("create", NoId, body, r.resp)
            /\ issued' = IF r.resp.status = 201 THEN Append(issued, Uuid(Len(issued) + 1)) ELSE issued
    /\ prev' = users
    /\ UNCHANGED <<batch, deployment, updated, products, nextId, table, inv, deleted>>

UsersUpdate ==
    /\ deployment = "users"
    /\ Ready
    /\ \E id \in UserKeys, body \in UserBodies :
        LET r == UserPutResult(users, id, body)
        IN  /\ users' = r.users
            /\ last' = Exchange("update", id, body, r.resp)
    /\ prev' = users
    /\ UNCHANGED <<batch, deployment, updated, products, nextId, table, inv, issued, deleted>>

UsersDeleteUser ==
    /\ deployment = "users"
    /\ Ready
    /\ \E id \in UserKeys :
        LET r == UserDeleteResult(users, id)
        IN  /\ users' = r.users
            /\ last' = Exchange("delete", id, NoUserBody, r.resp)
            /\ deleted' = IF r.resp.status = 200 THEN deleted \cup {id} ELSE deleted
    /\ prev' = users
    /\ UNCHANGED <<batch, deployment, updated, products, nextId, table, inv, issued>>

UsersNext ==
    \/ EndExchange
    \/ UsersList
    \/ UsersGet
    \/ UsersCreate
    \/ UsersUpdate
    \/ UsersDeleteUser

UsersSpec == UsersInit /\ [][UsersNext]_vars

----------------------------------------------------------------------------
(* C19 *)

\* no two stored users have the same email
EmailsUnique == \A i, j \in DOMAIN users : i # j => users[i].email # users[j].email

\* the last exchange is an update of a stored user whose body carries the
\* email of another stored user
EmailOfAnotherSent ==
    /\ last.op = "update"
    /\ \E i, j \in DOMAIN prev :
        /\ i # j
        /\ prev[i].id = last.idParam
        /\ prev[j].email = last.body.email

\* C19 as stated: in the Users router no two stored users have the same email;
\* a create whose email equals a stored user's email answers 409 and stores
\* nothing; an update that would change a user's email to one held by another
\* user answers 409 and leaves the users unchanged.
C19_DuplicateEmailIs409 ==
    deployment = "users" =>
        /\ EmailsUnique
        /\ (last.op = "create" /\ EmailIndex(prev, last.body.email) # 0) =>
            (last.status = 409 /\ users = prev)
        /\ EmailOfAnotherSent => (last.status = 409 /\ users = prev)

\* C19 as amended: in the Users router no two stored users have the same
\* email; a create whose email equals a stored user's email stores nothing
\* and answers 409 when it carries a non-empty name, 400 when its name is
\* missing or empty (the required fields are checked first); an update that
\* would change a user's email to one held by another user answers 409 and
\* leaves the users unchanged.
C19_DuplicateEmailRejected ==
    deployment = "users" =>
        /\ EmailsUnique
        /\ (last.op = "create" /\ EmailIndex(prev, last.body.email) # 0) =>
            /\ users = prev
            /\ last.status = IF Truthy(last.body.name) THEN 409 ELSE 400
        /\ EmailOfAnotherSent => (last.status = 409 /\ users = prev)

\* with two users stored, an update of the second carrying a new name and the
\* email of the first was answered 409
C19_Witness ==
    /\ deployment = "users"
    /\ Len(users) = 2
    /\ EmailOfAnotherSent
    /\ last.idParam = users[2].id
    /\ last.body.email = users[1].email
    /\ Truthy(last.body.name) /\ last.body.name # users[2].name
    /\ last.status = 409

----------------------------------------------------------------------------
(* C20 *)

NonEmptyString(v) == v.t = "string" /\ v.s # <<>>

\* C20: in the Users router a successful update replaces the name and the
\* email that the body supplies non-empty and keeps everything else: no id
\* and no createdAt changes, no other user changes, an omitted or
\* empty-string name or email keeps its prior value; and every stored user
\* has a non-empty name and a non-empty email.
C20_UserUpdateFrame ==
    deployment = "users" =>
        /\ \A i \in DOMAIN users : NonEmptyString(users[i].name) /\ NonEmptyString(users[i].email)
        /\ (last.op = "update" /\ last.status = 200) =>
            /\ Len(users) = Len(prev)
            /\ \A i \in DOMAIN prev :
                /\ users[i].id = prev[i].id
                /\ users[i].createdAt = prev[i].createdAt
                /\ prev[i].id # last.idParam => users[i] = prev[i]
                /\ prev[i].id = last.idParam =>
                    /\ users[i].name =
                        IF NonEmptyString(last.body.name) THEN last.body.name ELSE prev[i].name
                    /\ users[i].email =
                        IF NonEmptyString(last.body.email) THEN last.body.email ELSE prev[i].email
                    /\ last.data = <<users[i]>>

\* with two users stored, an update carrying a new name and an empty-string
\* email was answered 200: the name is replaced and the email kept
C20_Witness ==
    /\ deployment = "users"
    /\ Len(users) = 2
    /\ last.op = "update" /\ last.status = 200
    /\ last.body.email = Str(<<>>)
    /\ NonEmptyString(last.body.name)
    /\ \E i \in DOMAIN prev :
        /\ prev[i].id = last.idParam
        /\ prev[i].name # last.body.name
        /\ users[i].name = last.body.name
        /\ users[i].email = prev[i].email

----------------------------------------------------------------------------
(* C21 *)

\* C21: in the Users router a create whose name or email is missing or empty
\* answers 400 and leaves the users map unchanged, whether or not its email is
\* already that of a stored user: the required fields are checked before the
\* search for a duplicate email.
C21_RequiredBeforeDuplicate ==
    (/\ deployment = "users"
     /\ last.op = "create"
     /\ ~(NonEmptyString(last.body.name) /\ NonEmptyString(last.body.email)))
        => (last.status = 400 /\ users = prev)

\* a create with no name and the email of a stored user was answered 400
C21_Witness ==
    /\ deployment = "users"
    /\ last.op = "create"
    /\ last.body.name = Undef
    /\ EmailIndex(prev, last.body.email) # 0
    /\ last.status = 400
    /\ users = prev

----------------------------------------------------------------------------
(* EventSpec: the handler from the API Gateway event on, one invocation at  *)
(* a time: routing, JSON.parse of the body, and the commands sent           *)

\* (PathParts_KeepsEmpty: split('/') without the filter)
PathParts_KeepsEmpty(path) == path

\* a path is what path.split('/') makes of it: its segments, the empty ones
\* included; a segment is a sequence of tokens, as an id is
PathParts(path) == SelectSeq(path, LAMBDA seg : seg # <<>>)

\* event.body: null, or a text that is not JSON, the JSON literal null, a JSON
\* number, or the JSON text of an object
EventBodies ==
    {[kind |-> kind, value |-> NoBody] : kind \in {"absent", "malformed", "null", "number"}}
        \cup {[kind |-> "object", value |-> b] : b \in FaultBodies}
        \cup {[kind |-> "object", value |-> Body(Str(<<"b">>), Num(0), Undef)]}

\* event.body ? JSON.parse(event.body) : {} -- a SyntaxError for a text that is
\* not JSON, null for 'null'; of a number every property reads undefined
ParsedBody(raw) ==
    [thrown |-> raw.kind = "malformed",
     isNull |-> raw.kind = "null",
     value |-> IF raw.kind = "object" THEN raw.value ELSE NoBody]

\* createProduct(body): body.name of null throws inside its try block
CreateProductOf(tbl, uuid, parsed, now) ==
    IF parsed.isNull
    THEN [table |-> tbl, sent |-> <<>>,
          resp |-> Catch(Rejected(<<"Cannot", "read", "properties", "of", "null">>), <<"Failed", "to", "create", "product">>)]
    ELSE CreateProductResult(tbl, uuid, parsed.value, now)

\* updateProduct(id, body): body.name of null throws once the item has been found
UpdateProductOf(tbl, id, parsed, now) ==
    IF parsed.isNull /\ DbGet(tbl, id) # NoItem
    THEN [table |-> tbl, sent |-> <<Command("Get", id, NoSet)>>,
          resp |-> Catch(Rejected(<<"Cannot", "read", "properties", "of", "null">>), <<"Failed", "to", "update", "product">>)]
    ELSE UpdateProductResult(tbl, id, parsed.value, now)

\* handler(event): uuid and now are what randomUUID() and new Date() return
\* if reached, order the order the scan returns the items in
Handler(event, tbl, uuid, now, order) ==
    LET method == event.method
        pathParts == PathParts(event.path)
        parsed == ParsedBody(event.body)
        ParseFailed == [table |-> tbl, sent |-> <<>>,
                        resp |-> Catch(Rejected(<<"Unexpected", "token">>), <<"Internal", "Server", "Error">>)]
    IN  IF method = "GET" /\ Len(pathParts) = 1 /\ pathParts[1] = <<"products">>
        THEN [table |-> tbl, resp |-> successResponse(200, order),
              sent |-> <<Command("Scan", NoId, NoSet)>>]
        ELSE IF method = "GET" /\ Len(pathParts) = 2 /\ pathParts[1] = <<"products">>
        THEN [table |-> tbl, resp |-> GetProductResult(tbl, pathParts[2]),
              sent |-> <<Command("Get", pathParts[2], NoSet)>>]
        ELSE IF method = "POST" /\ Len(pathParts) = 1 /\ pathParts[1] = <<"products">>
        THEN IF parsed.thrown THEN ParseFailed ELSE CreateProductOf(tbl, uuid, parsed, now)
        ELSE IF method = "PUT" /\ Len(pathParts) = 2 /\ pathParts[1] = <<"products">>
        THEN IF parsed.thrown THEN ParseFailed ELSE UpdateProductOf(tbl, pathParts[2], parsed, now)
        ELSE IF method = "DELETE" /\ Len(pathParts) = 2 /\ pathParts[1] = <<"products">>
        THEN DeleteProductResult(tbl, pathParts[2])
        ELSE [table |-> tbl, resp |-> errorResponse(404, <<"Not", "Found">>), sent |-> <<>>]

\* the paths: /products, /products/, /products/{id}, /products/{id}/x,
\* /items, /items/{id} and /
Paths ==
    {<<<<>>, <<"products">>>>, <<<<>>, <<"products">>, <<>>>>, <<<<>>, <<"items">>>>, <<<<>>, <<>>>>}
        \cup {<<<<>>, <<"products">>, id>> : id \in Keys}
        \cup {<<<<>>, <<"products">>, id, <<"x">>>> : id \in Keys}
        \cup {<<<<>>, <<"items">>, id>> : id \in Keys}

\* one invocation: the event, the response, and the commands sent during it
EventExchange(event, r) ==
    [op |-> "event", event |-> event, status |-> r.resp.status, success |-> r.resp.success,
     error |-> r.resp.error, data |-> r.resp.data, message |-> r.resp.message,
     headers |-> r.resp.headers, sent |-> r.sent]

EventInit == Init /\ deployment = "lambda"

\* the handler invoked with one event
Invoke ==
    /\ deployment = "lambda"
    /\ Ready /\ AllIdle
    /\ \E method \in {"GET", "POST", "PUT", "DELETE", "OPTIONS", "PATCH"} :
       \E path \in Paths, body \in EventBodies, now \in Instants :
       \E order \in Orderings(Range(table) \ {NoItem}) :
        LET event == [method |-> method, path |-> path, body |-> body]
            r == Handler(event, table, Uuid(Len(issued) + 1), now, order)
        IN  /\ r.resp.status = 201 => Len(issued) < MaxCreates
            /\ table' = r.table
            /\ last' = EventExchange(event, r)
            /\ issued' = IF r.resp.status = 201 THEN Append(issued, Uuid(Len(issued) + 1)) ELSE issued
    /\ prev' = table
    /\ UNCHANGED <<batch, deployment, updated, users, products, nextId, inv, deleted>>

EventNext ==
    \/ EndExchange
    \/ Invoke

EventSpec == EventInit /\ [][EventNext]_vars

----------------------------------------------------------------------------
(* C22: unacceptable bodies of POST /products and PUT /products/{id}         *)

\* vocabulary: the last event was POST /products, or PUT /products/{id} for an
\* id that was in the table when the event arrived
IsEvent == last # NoExchange /\ last.op = "event"
PostProducts ==
    /\ IsEvent
    /\ last.event.method = "POST"
    /\ PathParts(last.event.path) = <<<<"products">>>>
PutStoredProduct ==
    /\ IsEvent
    /\ last.event.method = "PUT"
    /\ Len(PathParts(last.event.path)) = 2
    /\ PathParts(last.event.path)[1] = <<"products">>
    /\ DbGet(prev, PathParts(last.event.path)[2]) # NoItem
\* vocabulary: the body is no product payload: not JSON, the literal null, or
\* an object that breaks a validation rule of the operation
BodyUnacceptable ==
    \/ last.event.body.kind \in {"malformed", "null"}
    \/ /\ last.event.body.kind = "object"
       /\ IF last.event.method = "POST"
          THEN CreateValidate(last.event.body.value) # NoText
          ELSE UpdateValidate(last.event.body.value) # NoText

\* C22: a POST /products or PUT /products/{id} (the id stored) whose body is
\* not valid JSON, is the literal null, or breaks a validation rule is
\* answered 400 and leaves the table as it was
C22_BadBodyIs400 ==
    (PostProducts \/ PutStoredProduct) /\ BodyUnacceptable
        => last.status = 400 /\ table = prev

\* C22, the part that holds: an object that breaks a validation rule is
\* answered 400, and no such request, whatever its body, changes the table
C22_RuleBreakIs400 ==
    (PostProducts \/ PutStoredProduct) /\ BodyUnacceptable
        => /\ table = prev
           /\ last.event.body.kind = "object" => last.status = 400
           /\ last.event.body.kind # "object" => last.status = 500

----------------------------------------------------------------------------
(* C23: concurrent updates of one item                                      *)

\* RaceSpec: the invocations of updateProduct on the first item created,
\* interleaved at their awaits, with the creates that store the items
RaceUpdateGet ==
    \E w \in Workers, now \in Instants :
    \E name \in {Undef, Str(<<"b">>), Str(<<"d", " ">>)}, price \in {Undef, Num(2)} :
        UpdateProductGet(w, Uuid(1), Body(name, price, Undef), now)

RaceNext ==
    \/ EndExchange
    \/ ConcCreate
    \/ RaceUpdateGet
    \/ ConcUpdateWrite

RaceSpec == ConcInit /\ [][RaceNext]_vars

\* vocabulary: the last response is the 200 of an updateProduct
UpdateWritten == last # NoExchange /\ last.op = "update" /\ last.status = 200
\* vocabulary: the value the stored item must hold in a field after an update
\* that supplied `given` for it while the item held `before`
FieldAfter(given, before) ==
    IF given = Undef THEN before
    ELSE IF given.t = "string" THEN Str(Trim(given.s)) ELSE given
\* vocabulary: an updateProduct on the id of the last response has read the
\* item and not yet sent its UpdateCommand
PendingUpdates == {w \in Workers : inv[w].pc = "update" /\ inv[w].id = last.idParam}

\* C23: whatever other invocations are in flight, an UpdateCommand leaves the
\* item with the value it supplied in each field it supplied and with the value
\* the item held before in every other field; so of two concurrent updates of
\* an item a field supplied by one keeps that one's value and a field supplied
\* by both ends with the value of the later command
C23_LastWriterPerField ==
    UpdateWritten =>
        /\ table[last.idParam].name = FieldAfter(last.body.name, prev[last.idParam].name)
        /\ table[last.idParam].price = FieldAfter(last.body.price, prev[last.idParam].price)
        /\ table[last.idParam].category = FieldAfter(last.body.category, prev[last.idParam].category)
        /\ table[last.idParam].createdAt = prev[last.idParam].createdAt
        /\ \A id \in DOMAIN table : id # last.idParam => table[id] = prev[id]

\* an update that supplied the name only has written over the name and the
\* price an earlier update wrote, while a third update of the item that
\* supplies another name is still to send its command
C23_Witness ==
    /\ UpdateWritten
    /\ last.body.name = Str(<<"d", " ">>)
    /\ prev[last.idParam].name = Str(<<"b">>)
    /\ table[last.idParam].name = Str(<<"d">>)
    /\ table[last.idParam].price = Num(2)
    /\ \E w \in PendingUpdates : inv[w].set.name = Str(<<"b">>)

----------------------------------------------------------------------------
(* C24: at most one delete of an id answers 200                             *)

\* vocabulary: a deleteProduct has just answered 200 for an id that an
\* earlier deleteProduct answered 200 for, no create in between (ids are
\* never issued twice)
SecondDelete200 ==
    /\ last # NoExchange
    /\ last.op = "delete"
    /\ last.status = 200
    /\ last.afterDelete

\* C24: no deleteProduct answers 200 for an id for which a deleteProduct has
\* answered 200 before
C24_OneDeletePerId == ~SecondDelete200

----------------------------------------------------------------------------
(* C25: updateProduct validates before it writes                            *)

\* vocabulary: the last event was PUT /products/{id}
PutProduct ==
    /\ IsEvent
    /\ last.event.method = "PUT"
    /\ Len(PathParts(last.event.path)) = 2
    /\ PathParts(last.event.path)[1] = <<"products">>
\* vocabulary: the UpdateCommands among the commands the invocation sent
UpdatesSent == SelectSeq(last.sent, LAMBDA c : c.cmd = "Update")
\* vocabulary: what the body supplied for a field (nothing when the body is
\* absent or no object), a string trimmed
Supplied(field) ==
    LET given == IF last.event.body.kind = "object" THEN last.event.body.value[field] ELSE Undef
    IN  IF given = Undef THEN Undef
        ELSE IF given.t = "string" THEN Str(Trim(given.s)) ELSE given

\* C25: a PUT /products/{id} answered 400 or 404 has sent no UpdateCommand and
\* left the table as it was; one answered 200 has sent exactly one
\* UpdateCommand, for the id of the path, whose SET clause holds the supplied
\* ones of name, price and category (name and category trimmed), no other of
\* them, and updatedAt
C25_ValidateThenOneUpdate ==
    PutProduct =>
        /\ last.status \in {400, 404} => UpdatesSent = <<>> /\ table = prev
        /\ last.status = 200 =>
            /\ Len(UpdatesSent) = 1
            /\ UpdatesSent[1].key = PathParts(last.event.path)[2]
            /\ UpdatesSent[1].set.name = Supplied("name")
            /\ UpdatesSent[1].set.price = Supplied("price")
            /\ UpdatesSent[1].set.category = Supplied("category")
            /\ UpdatesSent[1].set.updatedAt # Undef

\* a PUT that supplied a category with a trailing blank was answered 200 and
\* its one UpdateCommand carries the category trimmed
C25_Witness ==
    /\ PutProduct
    /\ last.status = 200
    /\ last.event.body.kind = "object"
    /\ last.event.body.value.category = Str(<<"c", " ">>)
    /\ Len(UpdatesSent) = 1
    /\ UpdatesSent[1].set.category = Str(<<"c">>)

----------------------------------------------------------------------------
(* C26: rejected creates change nothing; the k-th create gets id k          *)

\* C26: in the in-memory router a create answered 400 leaves the products
\* array as it was, nextId is always one more than the number of creates that
\* succeeded (so no rejected create, update or delete moves it), and the k-th
\* successful create received the id k
C26_KthCreateGetsK ==
    deployment = "express" =>
        /\ (last.op = "create" /\ last.status = 400) => products = prev
        /\ nextId = Len(issued) + 1
        /\ \A k \in DOMAIN issued : issued[k] = k
        /\ (last.op = "create" /\ last.status = 201) => last.data[1].id = Len(issued)

\* the second create succeeded, with id 2, after the first product had been
\* deleted and so with an array holding one product
C26_Witness ==
    /\ deployment = "express"
    /\ last.op = "create" /\ last.status = 201
    /\ last.data[1].id = 2
    /\ Len(products) = 1
    /\ deleted # {}

----------------------------------------------------------------------------
(* C27: update and delete touch one product; list and get none              *)

\* vocabulary: the id the handler looks up for the id parameter of the last
\* request
TargetId == ParseInt(last.idParam)
IsTarget(p) == ~TargetId.nan /\ p.id = TargetId.v
\* vocabulary: the products other than the looked-up one, in array order
Others(prods) == SelectSeq(prods, LAMBDA p : ~IsTarget(p))

\* C27: in the in-memory router a delete answered 200 removes exactly one
\* element, the one with the looked-up id, and keeps the others with their
\* fields in their order; an update, whatever its answer, keeps the array's
\* length and every element other than the looked-up one; a rejected delete, a
\* list and a get leave the array as it was
C27_OnlyTargetTouched ==
    (deployment = "express" /\ last # NoExchange) =>
        /\ (last.op = "delete" /\ last.status = 200) =>
            /\ Len(products) = Len(prev) - 1
            /\ products = Others(prev)
        /\ (last.op = "delete" /\ last.status # 200) => products = prev
        /\ last.op = "update" =>
            /\ Len(products) = Len(prev)
            /\ \A k \in DOMAIN prev : ~IsTarget(prev[k]) => products[k] = prev[k]
        /\ last.op \in {"list", "get"} => products = prev

\* the first of two products was deleted and the second is now the first
C27_Witness ==
    /\ deployment = "express"
    /\ last.op = "delete" /\ last.status = 200
    /\ Len(prev) = 2
    /\ IsTarget(prev[1])
    /\ products = <<prev[2]>>

----------------------------------------------------------------------------
(* C28: the route table of the handler                                      *)

\* vocabulary: the routes, by method and number of path segments, the first
\* segment being 'products'
Routes == {<<"GET", 1>>, <<"GET", 2>>, <<"POST", 1>>, <<"PUT", 2>>, <<"DELETE", 2>>}
\* vocabulary: the segments of the path of the last event, those between two
\* slashes that hold at least one character
Segments == SelectSeq(last.event.path, LAMBDA seg : Len(seg) > 0)
\* vocabulary: the routes the last event matches
RouteOf ==
    {route \in Routes : /\ Segments # <<>>
                        /\ Segments[1] = <<"products">>
                        /\ route[1] = last.event.method
                        /\ route[2] = Len(Segments)}
\* vocabulary: the commands a route sends, in order, at most
CommandsOf(route) ==
    IF route = <<"GET", 1>> THEN {<<"Scan">>}
    ELSE IF route = <<"GET", 2>> THEN {<<"Get">>}
    ELSE IF route = <<"POST", 1>> THEN {<<>>, <<"Put">>}
    ELSE IF route = <<"PUT", 2>> THEN {<<>>, <<"Get">>, <<"Get", "Update">>}
    ELSE {<<"Get">>, <<"Get", "Delete">>}
CommandNames == [k \in DOMAIN last.sent |-> last.sent[k].cmd]

\* C28: a request matches at most one route, and then sends only commands of
\* that route's operation; a request that matches none (another method,
\* another first segment, no segment or more than two) is answered 404
\* 'Not Found' without a command sent and with the table as it was
C28_RouteTable ==
    IsEvent =>
        /\ Cardinality(RouteOf) <= 1
        /\ \A route \in RouteOf : CommandNames \in CommandsOf(route)
        /\ RouteOf = {} =>
            /\ last.status = 404
            /\ last.error = <<"Not", "Found">>
            /\ last.sent = <<>>
            /\ table = prev

\* a PATCH of the path of a stored product was answered by no route
C28_Witness ==
    /\ IsEvent
    /\ last.status = 404
    /\ last.error = <<"Not", "Found">>
    /\ last.sent = <<>>
    /\ last.event.method = "PATCH"
    /\ Len(Segments) = 2
    /\ Segments[1] = <<"products">>
    /\ DbGet(table, Segments[2]) # NoItem

----------------------------------------------------------------------------
(* PaySpec: batchProcessPayments of payment-module/payment.ts, from one     *)
(* await to the next                                                        *)

\* (BeginNext_StopsAtFailure: a loop that breaks at the first failed payment)
BeginNext_StopsAtFailure(b) ==
    IF Len(b.results) = Len(b.payments)
           \/ (b.results # <<>> /\ ~b.results[Len(b.results)].success)
    THEN [b EXCEPT !.pc = "done"]
    ELSE IF b.payments[Len(b.results) + 1].circular
    THEN [b EXCEPT !.pc = "rejected"]
    ELSE [b EXCEPT !.pc = "await",
                   !.log = Append(@, [ev |-> "start", i |-> Len(b.results) + 1,
                                      of |-> b.payments[Len(b.results) + 1].customerId])]

\* the for loop from its head to the next await: return results when the
\* payments are exhausted, else processPayment(payment) up to the await of
\* fetch; JSON.stringify(request), before the try block, throws for a request
\* that holds a cycle, and the call rejects
BeginNext(b) ==
    IF Len(b.results) = Len(b.payments)
    THEN [b EXCEPT !.pc = "done"]
    ELSE IF b.payments[Len(b.results) + 1].circular
    THEN [b EXCEPT !.pc = "rejected"]
    ELSE [b EXCEPT !.pc = "await",
                   !.log = Append(@, [ev |-> "start", i |-> Len(b.results) + 1,
                                      of |-> b.payments[Len(b.results) + 1].customerId])]

PayInit ==
    /\ deployment = "payments"
    /\ products = <<>>
    /\ nextId = 1
    /\ table = EmptyTable
    /\ inv = [w \in Workers |-> Idle]
    /\ last = NoExchange
    /\ prev = <<>>
    /\ issued = <<>>
    /\ deleted = {}
    /\ updated = {}
    /\ users = <<>>
    /\ batch = [pc |-> "idle", payments |-> <<>>, results |-> <<>>, log |-> <<>>]

\* batchProcessPayments(payments) is called, no call being in progress
BatchCall ==
    /\ deployment = "payments"
    /\ batch.pc # "await"
    /\ \E n \in 0..MaxPayments :
       \E payments \in [1..n -> {[customerId |-> "c1", circular |-> FALSE],
                                 [customerId |-> "c2", circular |-> FALSE],
                                 [customerId |-> "c3", circular |-> TRUE]}] :
        batch' = BeginNext([pc |-> "idle", payments |-> payments, results |-> <<>>, log |-> <<>>])
    /\ UNCHANGED <<deployment, products, nextId, table, inv, last, prev, issued, deleted, updated, users>>

\* the gateway's answer to the pending fetch arrives: no answer at all (fetch
\* rejects), an answer that is not ok, an ok answer whose body is not JSON
\* (response.json() rejects), or an ok answer with the id of the charge;
\* processPayment returns its result, which is pushed, and the loop goes on
Settle ==
    /\ deployment = "payments"
    /\ batch.pc = "await"
    /\ \E outcome \in {"unreachable", "declined", "garbled", "t1", "t2"} :
        LET result ==
                IF outcome = "declined"
                THEN [success |-> FALSE, transactionId |-> "", error |-> <<"Payment", "failed">>]
                ELSE IF outcome \in {"unreachable", "garbled"}
                THEN [success |-> FALSE, transactionId |-> "", error |-> <<"An", "error", "occurred">>]
                ELSE [success |-> TRUE, transactionId |-> outcome, error |-> <<>>]
        IN  batch' = BeginNext([batch EXCEPT
                        !.results = Append(@, result),
                        !.log = Append(@, [ev |-> "settle", i |-> Len(batch.results) + 1,
                                           of |-> outcome])])
    /\ UNCHANGED <<deployment, products, nextId, table, inv, last, prev, issued, deleted, updated, users>>

PayNext ==
    \/ BatchCall
    \/ Settle

PaySpec == PayInit /\ [][PayNext]_vars

----------------------------------------------------------------------------
(* C29: the batch runs the payments one at a time, in order, to the end     *)

\* vocabulary: a gateway answer that makes the payment fail
GatewayFailure(outcome) == outcome \in {"unreachable", "declined", "garbled"}
\* vocabulary: the log of a call is start 1, settle 1, start 2, settle 2, ...:
\* each payment started after the one before it settled, in input order
OneAtATime ==
    \A j \in DOMAIN batch.log :
        /\ batch.log[j].i = (j + 1) \div 2
        /\ batch.log[j].ev = (IF j % 2 = 1 THEN "start" ELSE "settle")
        /\ j % 2 = 1 => batch.log[j].of = batch.payments[batch.log[j].i].customerId
\* vocabulary: the i-th result is the result of the gateway's answer to the
\* i-th payment
ResultsInOrder ==
    \A i \in DOMAIN batch.results :
        /\ 2 * i \in DOMAIN batch.log
        /\ batch.results[i].success = ~GatewayFailure(batch.log[2 * i].of)
        /\ batch.results[i].success => batch.results[i].transactionId = batch.log[2 * i].of
        /\ ~batch.results[i].success => batch.results[i].error # <<>>

\* C29: batchProcessPayments starts each payment after the one before it has
\* settled, in input order; the i-th result is the result of the i-th payment;
\* a failed payment does not end the batch: the call returns only with as many
\* results as payments, and it rejects only at a payment whose request cannot
\* be serialised, never for an answer of the gateway
C29_SequentialBatch ==
    deployment = "payments" =>
        /\ OneAtATime
        /\ ResultsInOrder
        /\ Len(batch.results) <= Len(batch.payments)
        /\ batch.pc = "await" => Len(batch.log) = 2 * Len(batch.results) + 1
        /\ batch.pc # "await" => Len(batch.log) = 2 * Len(batch.results)
        /\ batch.pc = "done" => Len(batch.results) = Len(batch.payments)
        /\ batch.pc = "rejected" =>
            /\ Len(batch.results) < Len(batch.payments)
            /\ batch.payments[Len(batch.results) + 1].circular

\* a call with two payments returned after the gateway could not be reached
\* for the first and charged the second
C29_Witness ==
    /\ deployment = "payments"
    /\ batch.pc = "done"
    /\ Len(batch.payments) = 2
    /\ batch.payments[1].customerId # batch.payments[2].customerId
    /\ ~batch.results[1].success
    /\ batch.log[2].of = "unreachable"
    /\ batch.results[2].success

====
